---------------------------- MODULE Spec2Model ----------------------------
(***************************************************************************)
(* A model of scripts/generate_prompt_lists.py: the root check, the        *)
(* header, the catalog `data`, the validation loop, the emission loop and  *)
(* the summary, run against a small filesystem.                            *)
(*                                                                         *)
(* Text is a sequence of chunks: the chunk NL is one newline character,    *)
(* every other chunk is a non-empty run of characters holding no newline.  *)
(* A path is the sequence of its components.                               *)
(***************************************************************************)
EXTENDS Integers, Sequences, FiniteSets, TLC

VARIABLES
    env,        \* os.environ.get("LOCALAPPDATA", ""): a path, <<>> when unset
    clock,      \* the wall clock datetime.now() reads
    data,       \* the catalog: a sequence of [path, entries], in insertion order
    fs,         \* the filesystem: existing path -> [kind, content]
    pc,         \* position of the script
    root,       \* the script's variable root
    date,       \* the script's variable date
    header,     \* the script's variable header
    vi,         \* index of the entry the validation loop is at
    ei,         \* index of the entry the emission loop is at
    f,          \* the open file object: <<>> or <<[path, pos]>>
    exitcode,   \* process exit status: -1 while running
    stderr,     \* what the process wrote to stderr (SystemExit message / traceback)
    stdout,     \* what the process printed
    run,        \* number of the current run of the script
    fs0,        \* the filesystem when the current run started
    prev,       \* <<>> or <<[fs, date, exitcode]>>: how the previous run ended
    repeats,    \* for each entry of data, whether its tag list repeats a tag
    log         \* the steps of the current run so far: [op, path, ok], in order

vars == <<env, clock, data, fs, pc, root, date, header, vi, ei, f,
          exitcode, stderr, stdout, run, fs0, prev, repeats, log>>

-----------------------------------------------------------------------------
(* Bounds of the model *)

MaxExtra == 1     \* longest tag list is MinEntries + MaxExtra
MaxTicks == 1     \* the clock advances at most this many days
MaxRuns  == 2     \* the script is run at most this many times

(* if len(entries) < 50 *)
MinEntries == 50

-----------------------------------------------------------------------------
(* Text *)

NL == "\n"

RECURSIVE JoinNLReversed(_)
(* mutant: the tags joined last to first *)
JoinNLReversed(entries) ==
    IF Len(entries) = 0 THEN <<>>
    ELSE IF Len(entries) = 1 THEN entries[1]
    ELSE JoinNLReversed(Tail(entries)) \o <<NL>> \o entries[1]

RECURSIVE JoinNL(_)
(* "\n".join(entries) *)
JoinNL(entries) ==
    IF Len(entries) = 0 THEN <<>>
    ELSE IF Len(entries) = 1 THEN entries[1]
    ELSE entries[1] \o <<NL>> \o JoinNL(Tail(entries))

(* the set of elements of a sequence: set(entries) *)
SetOf(seq) == {seq[i] : i \in 1..Len(seq)}

Pad2(n) == IF n < 10 THEN "0" \o ToString(n) ELSE ToString(n)

(* datetime.strftime("%Y-%m-%d") for four-digit years *)
Strftime(dt) == ToString(dt.year) \o "-" \o Pad2(dt.month) \o "-" \o Pad2(dt.day)

(* mutant: the date also in the marker line *)
HeaderOfDatedMarker(d) ==
    <<"# CHANGE LOG ", d, NL,
      "# - ", d, " | Request: Regenerate prompt lists | Initial content.", NL>>

(* header = f"# CHANGE LOG\n# - {date} | Request: ... | Initial content.\n" *)
HeaderOf(d) ==
    <<"# CHANGE LOG", NL,
      "# - ", d, " | Request: Regenerate prompt lists | Initial content.", NL>>

(* mutant: the header is made anew, with the date of the moment, for each file *)
ContentFreshDate(hdr, entries) ==
    HeaderOf(Strftime(clock)) \o <<NL>> \o JoinNL(entries) \o <<NL>>

(* mutant: no blank line after the header *)
ContentNoBlank(hdr, entries) == hdr \o JoinNL(entries) \o <<NL>>

(* mutant: no newline after the last tag *)
ContentNoFinalNewline(hdr, entries) == hdr \o <<NL>> \o JoinNL(entries)

(* content = header + "\n" + "\n".join(entries) + "\n" *)
Content(hdr, entries) == hdr \o <<NL>> \o JoinNL(entries) \o <<NL>>

-----------------------------------------------------------------------------
(* Paths *)

Sep == "/"

IsAbs(p) == Len(p) > 0 /\ p[1] = Sep

(* os.path.join(a, b): an absolute b discards a *)
PathJoin(a, b) == IF IsAbs(b) THEN b ELSE a \o b

(* os.path.dirname(p) *)
DirName(p) == SubSeq(p, 1, Len(p) - 1)

RECURSIVE PathStr(_)
(* the path as the string an f-string shows *)
PathStr(p) ==
    IF Len(p) = 0 THEN ""
    ELSE IF Len(p) = 1 THEN p[1]
    ELSE IF p[1] = Sep THEN Sep \o PathStr(Tail(p))
    ELSE p[1] \o Sep \o PathStr(Tail(p))

Up == ".."

RECURSIVE ResolveFrom(_, _)
(* the components of p appended to the resolved path `done`, each ".."
   leaving the directory reached so far for its parent *)
ResolveFrom(done, p) ==
    IF Len(p) = 0 THEN done
    ELSE IF p[1] = Up /\ Len(done) > 0 /\ done[Len(done)] \notin {Up, Sep}
         THEN ResolveFrom(SubSeq(done, 1, Len(done) - 1), Tail(p))
    ELSE IF p[1] = Up /\ Len(done) > 0 /\ done[Len(done)] = Sep
         THEN ResolveFrom(done, Tail(p))
    ELSE ResolveFrom(Append(done, p[1]), Tail(p))

(* the place in the filesystem the system resolves the path p to *)
Resolve(p) == ResolveFrom(<<>>, p)

(* mutant: an unset LOCALAPPDATA falls back to the top of the filesystem *)
RootOfTop(e) ==
    IF e = <<>> THEN <<Sep, "PromptLoom", "Library">>
    ELSE PathJoin(PathJoin(e, <<"PromptLoom">>), <<"Library">>)

(* root = os.path.join(os.environ.get("LOCALAPPDATA", ""), "PromptLoom", "Library") *)
RootOf(e) == PathJoin(PathJoin(e, <<"PromptLoom">>), <<"Library">>)

-----------------------------------------------------------------------------
(* Filesystem *)

Dir == [kind |-> "dir", content |-> <<>>]
File(c) == [kind |-> "file", content |-> c]

Exists(fsys, p) == p \in DOMAIN fsys
(* os.path.isdir(p) *)
IsDir(fsys, p) == Exists(fsys, p) /\ fsys[p].kind = "dir"
IsFile(fsys, p) == Exists(fsys, p) /\ fsys[p].kind = "file"

Prefixes(p) == {SubSeq(p, 1, i) : i \in 1..Len(p)}

(* fsys with node n at path p *)
Put(fsys, p, n) == [q \in (DOMAIN fsys) \cup {p} |-> IF q = p THEN n ELSE fsys[q]]

(* fsys with every path of ps that is absent created as a directory *)
MkDirs(fsys, ps) ==
    [q \in (DOMAIN fsys) \cup ps |-> IF q \in DOMAIN fsys THEN fsys[q] ELSE Dir]


-----------------------------------------------------------------------------
(* The catalog `data`: relative path -> list of tags, in insertion order *)

(* the relative paths os.path.join("Composition", "Camera", "ShotType.txt"), ... *)
Keys ==
    << <<"Composition", "Camera", "ShotType.txt">>,
       <<"Person", "Meta", "Ethnicity.txt">> >>

(* keys that leave the root: one through "..", one that is absolute *)
EscapingKeys ==
    << <<Up, "Outside.txt">>,
       <<Sep, "Elsewhere", "Absolute.txt">> >>

(* the i-th tag of a list of pairwise distinct one-line tags *)
Tag(i) == <<"tag" \o ToString(i)>>

(* a tag that is the empty string, and one that holds a newline *)
EmptyTag == <<>>
NewlineTag == <<"two", NL, "lines">>

(* the shapes of a tag list: its length and whether its second tag repeats
   its first; and, for lists of MinEntries distinct tags, whether the last
   tag is empty, the third is empty, or the third holds a newline *)
Shapes ==
    [n : (MinEntries - 1)..(MinEntries + MaxExtra),
     dup : BOOLEAN,
     special : {"plain"}]
    \cup [n : {MinEntries}, dup : {FALSE}, special : {"emptylast", "emptymid", "newline"}]

EntriesOf(s) ==
    [i \in 1..s.n |->
        IF i = 2 /\ s.dup THEN Tag(1)
        ELSE IF i = s.n /\ s.special = "emptylast" THEN EmptyTag
        ELSE IF i = 3 /\ s.special = "emptymid" THEN EmptyTag
        ELSE IF i = 3 /\ s.special = "newline" THEN NewlineTag
        ELSE Tag(i)]

(* the shapes of the lists of distinct one-line tags that pass validation *)
PlainShapes == {s \in Shapes : s.n >= MinEntries /\ ~s.dup /\ s.special = "plain"}

CatalogsOver(keys, shapes) ==
    UNION {{[k \in 1..m |-> [path |-> keys[k], entries |-> EntriesOf(sh[k])]] :
               sh \in [1..m -> shapes]} : m \in 0..Len(keys)}

(* every shape of tag list under the keys inside the root; under the keys
   that leave it, the lists that reach the emission loop *)
Catalogs == CatalogsOver(Keys, Shapes) \cup CatalogsOver(EscapingKeys, PlainShapes)

(* two tags of the list at different positions are the same string *)
Repeats(entries) ==
    \E i \in 1..Len(entries) : \E j \in (i+1)..Len(entries) : entries[i] = entries[j]

-----------------------------------------------------------------------------
(* The states the script can start in *)

(* the values of LOCALAPPDATA: unset, or a directory *)
(* the catalog the script ships: data = {} and the data.update({...}) calls,
   every key and every tag list as written, in insertion order *)
ShippedData ==
    <<
      [path |-> <<"Composition", "Camera", "ShotType.txt">>,
       entries |-> <<
          <<"close-up">>, <<"extreme close-up">>, <<"tight close-up">>, <<"headshot">>,
          <<"beauty shot">>, <<"portrait">>, <<"profile shot">>, <<"three quarter view">>,
          <<"front view">>, <<"back view">>, <<"side view">>, <<"full body shot">>,
          <<"half body shot">>, <<"upper body shot">>, <<"lower body shot">>, <<"waist shot">>,
          <<"hip shot">>, <<"knee shot">>, <<"bust shot">>, <<"shoulder shot">>,
          <<"medium shot">>, <<"medium close-up">>, <<"medium full shot">>, <<"full shot">>,
          <<"wide shot">>, <<"establishing shot">>, <<"environmental portrait">>,
          <<"studio shot">>, <<"lookbook shot">>, <<"editorial shot">>, <<"catalog shot">>,
          <<"lifestyle shot">>, <<"posed shot">>, <<"candid shot">>, <<"walking shot">>,
          <<"sitting shot">>, <<"standing shot">>, <<"reclining shot">>,
          <<"over the shoulder shot">>, <<"silhouette shot">>, <<"shadow shot">>,
          <<"reflection shot">>, <<"mirror shot">>, <<"window shot">>, <<"doorway shot">>,
          <<"framed shot">>, <<"centered shot">>, <<"off center shot">>,
          <<"rule of thirds shot">>, <<"macro shot">>
       >>],
      [path |-> <<"Composition", "Camera", "CameraAngle.txt">>,
       entries |-> <<
          <<"eye level angle">>, <<"high angle">>, <<"low angle">>, <<"bird eye view">>,
          <<"worm eye view">>, <<"overhead angle">>, <<"top down angle">>, <<"bottom up angle">>,
          <<"three quarter angle">>, <<"profile angle">>, <<"front angle">>, <<"rear angle">>,
          <<"side angle">>, <<"dutch angle">>, <<"tilted angle">>, <<"canted angle">>,
          <<"over the shoulder angle">>, <<"diagonal angle">>, <<"straight on angle">>,
          <<"center angle">>, <<"left angle">>, <<"right angle">>, <<"front left angle">>,
          <<"front right angle">>, <<"rear left angle">>, <<"rear right angle">>,
          <<"left profile angle">>, <<"right profile angle">>, <<"top left angle">>,
          <<"top right angle">>, <<"low left angle">>, <<"low right angle">>,
          <<"high left angle">>, <<"high right angle">>, <<"overhead left angle">>,
          <<"overhead right angle">>, <<"under chin angle">>, <<"chin level angle">>,
          <<"brow level angle">>, <<"waist level angle">>, <<"hip level angle">>,
          <<"knee level angle">>, <<"ankle level angle">>, <<"ground level angle">>,
          <<"ceiling level angle">>, <<"pan angle">>, <<"tilt angle">>, <<"roll angle">>,
          <<"side tilt angle">>, <<"forward tilt angle">>, <<"back tilt angle">>
       >>],
      [path |-> <<"Composition", "Lens", "LensType.txt">>,
       entries |-> <<
          <<"prime lens">>, <<"zoom lens">>, <<"macro lens">>, <<"telephoto lens">>,
          <<"wide angle lens">>, <<"ultra wide lens">>, <<"standard lens">>, <<"portrait lens">>,
          <<"tilt shift lens">>, <<"fish eye lens">>, <<"soft focus lens">>,
          <<"anamorphic lens">>, <<"pancake lens">>, <<"fast lens">>, <<"slow lens">>,
          <<"apochromatic lens">>, <<"telephoto zoom lens">>, <<"wide zoom lens">>,
          <<"normal zoom lens">>, <<"long zoom lens">>, <<"variable aperture lens">>,
          <<"constant aperture lens">>, <<"stabilized lens">>, <<"manual focus lens">>,
          <<"auto focus lens">>, <<"fixed focus lens">>, <<"retrofocus lens">>, <<"mirror lens">>,
          <<"catadioptric lens">>, <<"macro zoom lens">>, <<"close focus lens">>,
          <<"portrait prime lens">>, <<"wide prime lens">>, <<"short telephoto lens">>,
          <<"long telephoto lens">>, <<"ultra telephoto lens">>, <<"short macro lens">>,
          <<"long macro lens">>, <<"cinema lens">>, <<"cine prime">>, <<"cine zoom">>,
          <<"parfocal lens">>, <<"varifocal lens">>, <<"focus by wire lens">>, <<"vintage lens">>,
          <<"modern lens">>, <<"coated lens">>, <<"uncoated lens">>, <<"soft lens">>,
          <<"sharp lens">>
       >>],
      [path |-> <<"Composition", "Lens", "FocalLength.txt">>,
       entries |-> <<
          <<"10mm lens">>, <<"12mm lens">>, <<"14mm lens">>, <<"16mm lens">>, <<"18mm lens">>,
          <<"20mm lens">>, <<"21mm lens">>, <<"24mm lens">>, <<"28mm lens">>, <<"30mm lens">>,
          <<"35mm lens">>, <<"40mm lens">>, <<"45mm lens">>, <<"50mm lens">>, <<"55mm lens">>,
          <<"58mm lens">>, <<"60mm lens">>, <<"65mm lens">>, <<"70mm lens">>, <<"75mm lens">>,
          <<"80mm lens">>, <<"85mm lens">>, <<"90mm lens">>, <<"95mm lens">>, <<"100mm lens">>,
          <<"105mm lens">>, <<"110mm lens">>, <<"120mm lens">>, <<"135mm lens">>,
          <<"150mm lens">>, <<"160mm lens">>, <<"170mm lens">>, <<"180mm lens">>,
          <<"200mm lens">>, <<"210mm lens">>, <<"220mm lens">>, <<"240mm lens">>,
          <<"250mm lens">>, <<"300mm lens">>, <<"400mm lens">>, <<"500mm lens">>,
          <<"600mm lens">>, <<"70-200mm lens">>, <<"24-70mm lens">>, <<"16-35mm lens">>,
          <<"18-55mm lens">>, <<"28-75mm lens">>, <<"35-105mm lens">>, <<"50-150mm lens">>,
          <<"100-400mm lens">>
       >>],
      [path |-> <<"Composition", "Settings", "Backdrop.txt">>,
       entries |-> <<
          <<"seamless backdrop">>, <<"paper backdrop">>, <<"muslin backdrop">>,
          <<"fabric backdrop">>, <<"vinyl backdrop">>, <<"cyclorama">>, <<"studio wall">>,
          <<"plaster wall">>, <<"brick wall">>, <<"concrete wall">>, <<"stone wall">>,
          <<"tile wall">>, <<"wood panel wall">>, <<"shoji screen">>, <<"curtain">>,
          <<"sheer curtain">>, <<"blackout curtain">>, <<"beaded curtain">>,
          <<"venetian blinds">>, <<"frosted glass">>, <<"window wall">>, <<"mirror wall">>,
          <<"metal wall">>, <<"grid wall">>, <<"chain link fence">>, <<"panel screen">>,
          <<"room divider">>, <<"rolling backdrop">>, <<"lightbox backdrop">>, <<"scrim">>,
          <<"canvas drop">>, <<"textured drop">>, <<"linen drop">>, <<"paper roll">>,
          <<"fabric roll">>, <<"backdrop stand">>, <<"studio corner">>, <<"arched backdrop">>,
          <<"cove wall">>, <<"set wall">>, <<"stage wall">>, <<"floor sweep">>, <<"paper sweep">>,
          <<"fabric sweep">>, <<"wood floor">>, <<"concrete floor">>, <<"tile floor">>,
          <<"laminate floor">>, <<"marble floor">>, <<"backdrop frame">>, <<"backdrop rig">>
       >>],
      [path |-> <<"Person", "Meta", "AdultDescriptor.txt">>,
       entries |-> <<
          <<"adult woman">>, <<"adult female">>, <<"grown woman">>, <<"mature woman">>,
          <<"woman">>, <<"female">>, <<"female adult">>, <<"adult model">>, <<"adult beauty">>,
          <<"adult glamour">>, <<"adult portrait subject">>, <<"adult muse">>,
          <<"adult fashion model">>, <<"adult lingerie model">>, <<"adult swimwear model">>,
          <<"adult fitness model">>, <<"adult art model">>, <<"adult figure model">>,
          <<"adult life model">>, <<"adult studio model">>, <<"adult photo model">>,
          <<"adult portrait model">>, <<"adult editorial model">>, <<"adult runway model">>,
          <<"adult print model">>, <<"adult commercial model">>, <<"adult catalog model">>,
          <<"adult pinup model">>, <<"adult boudoir model">>, <<"adult beauty model">>,
          <<"adult face model">>, <<"adult hair model">>, <<"adult hand model">>,
          <<"adult foot model">>, <<"adult body model">>, <<"adult glamour model">>,
          <<"adult lifestyle model">>, <<"adult lookbook model">>, <<"adult campaign model">>,
          <<"adult brand model">>, <<"adult runway talent">>, <<"adult fashion talent">>,
          <<"adult beauty talent">>, <<"adult female subject">>, <<"adult woman subject">>,
          <<"adult female portrait">>, <<"adult woman portrait">>, <<"adult woman model">>,
          <<"adult female muse">>, <<"adult female talent">>
       >>],
      [path |-> <<"Person", "Meta", "Ethnicity.txt">>,
       entries |-> <<
          <<"African">>, <<"African American">>, <<"Afro Caribbean">>, <<"North African">>,
          <<"East African">>, <<"West African">>, <<"Central African">>, <<"South African">>,
          <<"East Asian">>, <<"Southeast Asian">>, <<"South Asian">>, <<"Central Asian">>,
          <<"Middle Eastern">>, <<"Arab">>, <<"Persian">>, <<"Turkish">>, <<"Mediterranean">>,
          <<"Latina">>, <<"Hispanic">>, <<"Indigenous">>, <<"Native American">>,
          <<"Pacific Islander">>, <<"Polynesian">>, <<"Micronesian">>, <<"Melanesian">>,
          <<"European">>, <<"Northern European">>, <<"Southern European">>,
          <<"Eastern European">>, <<"Western European">>, <<"Slavic">>, <<"Celtic">>,
          <<"Nordic">>, <<"Scandinavian">>, <<"Balkan">>, <<"Greek">>, <<"Italian">>,
          <<"Spanish">>, <<"Portuguese">>, <<"French">>, <<"German">>, <<"British">>, <<"Irish">>,
          <<"Scottish">>, <<"Welsh">>, <<"Jewish">>, <<"Berber">>, <<"Korean">>, <<"Japanese">>,
          <<"Chinese">>, <<"Vietnamese">>
       >>],
      [path |-> <<"Person", "Meta", "Nationality.txt">>,
       entries |-> <<
          <<"American">>, <<"Canadian">>, <<"Mexican">>, <<"Brazilian">>, <<"Argentinian">>,
          <<"Chilean">>, <<"Peruvian">>, <<"Colombian">>, <<"Venezuelan">>, <<"British">>,
          <<"Irish">>, <<"Scottish">>, <<"Welsh">>, <<"French">>, <<"German">>, <<"Italian">>,
          <<"Spanish">>, <<"Portuguese">>, <<"Dutch">>, <<"Belgian">>, <<"Swiss">>,
          <<"Austrian">>, <<"Swedish">>, <<"Norwegian">>, <<"Danish">>, <<"Finnish">>,
          <<"Icelandic">>, <<"Polish">>, <<"Czech">>, <<"Slovak">>, <<"Hungarian">>,
          <<"Romanian">>, <<"Bulgarian">>, <<"Greek">>, <<"Turkish">>, <<"Russian">>,
          <<"Ukrainian">>, <<"Georgian">>, <<"Armenian">>, <<"Israeli">>, <<"Egyptian">>,
          <<"Moroccan">>, <<"South African">>, <<"Nigerian">>, <<"Kenyan">>, <<"Ethiopian">>,
          <<"Indian">>, <<"Pakistani">>, <<"Bangladeshi">>, <<"Chinese">>, <<"Japanese">>,
          <<"Korean">>, <<"Vietnamese">>
       >>],
      [path |-> <<"Person", "Meta", "Occupation.txt">>,
       entries |-> <<
          <<"actor">>, <<"singer">>, <<"dancer">>, <<"ballet dancer">>, <<"model">>,
          <<"photographer">>, <<"artist">>, <<"painter">>, <<"sculptor">>, <<"designer">>,
          <<"fashion designer">>, <<"makeup artist">>, <<"hair stylist">>, <<"chef">>,
          <<"barista">>, <<"bartender">>, <<"waitress">>, <<"server">>, <<"nurse">>, <<"doctor">>,
          <<"surgeon">>, <<"dentist">>, <<"lawyer">>, <<"judge">>, <<"teacher">>, <<"professor">>,
          <<"writer">>, <<"journalist">>, <<"editor">>, <<"musician">>, <<"guitarist">>,
          <<"pianist">>, <<"violinist">>, <<"athlete">>, <<"runner">>, <<"swimmer">>,
          <<"gymnast">>, <<"yoga instructor">>, <<"trainer">>, <<"pilot">>,
          <<"flight attendant">>, <<"engineer">>, <<"architect">>, <<"scientist">>,
          <<"researcher">>, <<"librarian">>, <<"therapist">>, <<"psychologist">>,
          <<"businesswoman">>, <<"entrepreneur">>, <<"manager">>, <<"producer">>, <<"director">>
       >>],
      [path |-> <<"Person", "Meta", "ModelType.txt">>,
       entries |-> <<
          <<"fashion model">>, <<"runway model">>, <<"editorial model">>, <<"commercial model">>,
          <<"beauty model">>, <<"glamour model">>, <<"pinup model">>, <<"lingerie model">>,
          <<"swimwear model">>, <<"fitness model">>, <<"art model">>, <<"life model">>,
          <<"figure model">>, <<"hand model">>, <<"foot model">>, <<"hair model">>,
          <<"makeup model">>, <<"catalog model">>, <<"print model">>, <<"promo model">>,
          <<"hostess model">>, <<"calendar model">>, <<"bridal model">>, <<"couture model">>,
          <<"lookbook model">>, <<"ecommerce model">>, <<"social model">>, <<"influencer model">>,
          <<"campaign model">>, <<"brand model">>, <<"lifestyle model">>, <<"studio model">>,
          <<"portrait model">>, <<"face model">>, <<"body model">>, <<"parts model">>,
          <<"catalogue model">>, <<"trade show model">>, <<"showroom model">>, <<"press model">>,
          <<"advertising model">>, <<"agency model">>, <<"test shoot model">>,
          <<"commercial face">>, <<"beauty face">>, <<"glamour face">>, <<"editorial face">>,
          <<"lookbook face">>, <<"portfolio model">>, <<"agency talent">>
       >>],
      [path |-> <<"Head", "Face", "Eyes.txt">>,
       entries |-> <<
          <<"almond eyes">>, <<"round eyes">>, <<"hooded eyes">>, <<"monolid eyes">>,
          <<"deep set eyes">>, <<"wide set eyes">>, <<"close set eyes">>, <<"upturned eyes">>,
          <<"downturned eyes">>, <<"large eyes">>, <<"small eyes">>, <<"bright eyes">>,
          <<"soft eyes">>, <<"sharp eyes">>, <<"cat eyes">>, <<"doe eyes">>, <<"bedroom eyes">>,
          <<"half lidded eyes">>, <<"wide open eyes">>, <<"sparkling eyes">>, <<"glossy eyes">>,
          <<"smoky eyes">>, <<"intense eyes">>, <<"gentle eyes">>, <<"steady gaze">>,
          <<"direct gaze">>, <<"side glance">>, <<"downcast eyes">>, <<"upward gaze">>,
          <<"dreamy eyes">>, <<"bold eyes">>, <<"calm eyes">>, <<"focused eyes">>,
          <<"relaxed eyes">>, <<"alert eyes">>, <<"serene eyes">>, <<"piercing eyes">>,
          <<"warm eyes">>, <<"cool eyes">>, <<"arched brows">>, <<"straight brows">>,
          <<"soft brows">>, <<"bold brows">>, <<"thick brows">>, <<"thin brows">>,
          <<"natural brows">>, <<"groomed brows">>, <<"clean brows">>, <<"full lashes">>,
          <<"long lashes">>, <<"short lashes">>, <<"curled lashes">>, <<"thick lashes">>
       >>],
      [path |-> <<"Head", "Face", "Lips.txt">>,
       entries |-> <<
          <<"full lips">>, <<"thin lips">>, <<"soft lips">>, <<"plump lips">>,
          <<"heart shaped lips">>, <<"bow lips">>, <<"wide lips">>, <<"narrow lips">>,
          <<"defined lips">>, <<"smooth lips">>, <<"glossy lips">>, <<"matte lips">>,
          <<"natural lips">>, <<"bitten lips">>, <<"pout">>, <<"lip pout">>, <<"lip press">>,
          <<"lip bite">>, <<"lip gap">>, <<"closed lips">>, <<"open lips">>, <<"parted lips">>,
          <<"smile">>, <<"soft smile">>, <<"wide smile">>, <<"subtle smile">>, <<"smirk">>,
          <<"half smile">>, <<"grin">>, <<"neutral mouth">>, <<"lip contour">>, <<"lip line">>,
          <<"lip curve">>, <<"lip shape">>, <<"lip volume">>, <<"lip peak">>, <<"lip cupid bow">>,
          <<"upper lip">>, <<"lower lip">>, <<"lip edge">>, <<"lip center">>, <<"lip highlight">>,
          <<"lip shadow">>, <<"lip texture">>, <<"lip detail">>, <<"lip profile">>,
          <<"lip silhouette">>, <<"lip focus">>, <<"lip front view">>, <<"lip side view">>
       >>],
      [path |-> <<"Head", "Hair", "HairLength.txt">>,
       entries |-> <<
          <<"buzz cut">>, <<"crew cut">>, <<"pixie cut">>, <<"short crop">>,
          <<"ear length hair">>, <<"cheek length hair">>, <<"chin length hair">>,
          <<"jaw length hair">>, <<"bob cut">>, <<"lob cut">>, <<"shoulder length hair">>,
          <<"collarbone length hair">>, <<"chest length hair">>, <<"bust length hair">>,
          <<"mid back hair">>, <<"waist length hair">>, <<"hip length hair">>,
          <<"tailbone length hair">>, <<"floor length hair">>, <<"long hair">>, <<"short hair">>,
          <<"medium hair">>, <<"micro bangs">>, <<"baby bangs">>, <<"brow length bangs">>,
          <<"eye length bangs">>, <<"cheek length layers">>, <<"chin length layers">>,
          <<"shoulder layers">>, <<"long layers">>, <<"face framing layers">>, <<"blunt cut">>,
          <<"layered cut">>, <<"shag cut">>, <<"wolf cut">>, <<"pageboy cut">>, <<"midi cut">>,
          <<"midi bob">>, <<"long bob">>, <<"mini bob">>, <<"shoulder skim hair">>,
          <<"collarbone bob">>, <<"chest skim hair">>, <<"waist skim hair">>, <<"hip skim hair">>,
          <<"tailbone hair">>, <<"floor skim hair">>, <<"neck length hair">>,
          <<"nape length hair">>, <<"jawline bob">>, <<"cheekbone bob">>, <<"lip length hair">>
       >>],
      [path |-> <<"Head", "Hair", "HairStyle.txt">>,
       entries |-> <<
          <<"ponytail">>, <<"high ponytail">>, <<"low ponytail">>, <<"side ponytail">>,
          <<"bubble ponytail">>, <<"braid">>, <<"french braid">>, <<"dutch braid">>,
          <<"fishtail braid">>, <<"rope braid">>, <<"crown braid">>, <<"halo braid">>,
          <<"side braid">>, <<"double braid">>, <<"box braids">>, <<"micro braids">>,
          <<"twists">>, <<"flat twists">>, <<"cornrows">>, <<"bun">>, <<"high bun">>,
          <<"low bun">>, <<"messy bun">>, <<"sleek bun">>, <<"top knot">>, <<"chignon">>,
          <<"beehive">>, <<"bouffant">>, <<"updo">>, <<"half updo">>, <<"half up half down">>,
          <<"side swept hair">>, <<"slicked back hair">>, <<"wet look hair">>, <<"spiky hair">>,
          <<"wavy hair">>, <<"curly hair">>, <<"coily hair">>, <<"straight hair">>,
          <<"beach waves">>, <<"finger waves">>, <<"victory rolls">>, <<"pin curls">>,
          <<"roller curls">>, <<"blowout">>, <<"feathered hair">>, <<"layered waves">>,
          <<"voluminous hair">>, <<"side part">>, <<"middle part">>
       >>],
      [path |-> <<"Head", "Makeup", "MakeupStyle.txt">>,
       entries |-> <<
          <<"natural makeup">>, <<"no makeup look">>, <<"soft glam">>, <<"full glam">>,
          <<"smoky eye">>, <<"cat eye">>, <<"winged eyeliner">>, <<"graphic liner">>,
          <<"tightline">>, <<"bold liner">>, <<"soft liner">>, <<"lower liner">>,
          <<"upper liner">>, <<"waterline liner">>, <<"ombre lips">>, <<"glossy lips">>,
          <<"matte lips">>, <<"satin lips">>, <<"lip stain">>, <<"lip tint">>,
          <<"overlined lips">>, <<"defined lips">>, <<"blurred lips">>, <<"soft blush">>,
          <<"cream blush">>, <<"powder blush">>, <<"contour">>, <<"bronzer">>, <<"highlight">>,
          <<"strobe">>, <<"dewy skin">>, <<"matte skin">>, <<"satin skin">>,
          <<"soft focus makeup">>, <<"airbrush makeup">>, <<"luminous skin">>, <<"glass skin">>,
          <<"clean skin">>, <<"soft shadow">>, <<"shimmer shadow">>, <<"matte shadow">>,
          <<"foil shadow">>, <<"cut crease">>, <<"halo eye">>, <<"inner corner highlight">>,
          <<"tight highlight">>, <<"freckle makeup">>, <<"beauty marks">>, <<"soft brows">>,
          <<"bold brows">>
       >>],
      [path |-> <<"Body", "Ass and Pussy", "AssAndPussy.txt">>,
       entries |-> <<
          <<"ass">>, <<"butt">>, <<"booty">>, <<"backside">>, <<"rear">>, <<"buttocks">>,
          <<"glutes">>, <<"gluteal">>, <<"cheeks">>, <<"cheek spread">>, <<"ass crack">>,
          <<"butt cleft">>, <<"cleft">>, <<"glute crease">>, <<"hip curve">>, <<"hip dip">>,
          <<"hip line">>, <<"hip bone">>, <<"pelvis">>, <<"pelvic bone">>, <<"pelvic curve">>,
          <<"pussy">>, <<"vulva">>, <<"labia">>, <<"labia majora">>, <<"labia minora">>,
          <<"clit">>, <<"clitoris">>, <<"clitoral hood">>, <<"mons pubis">>,
          <<"vaginal opening">>, <<"pussy lips">>, <<"inner lips">>, <<"outer lips">>,
          <<"pussy crease">>, <<"crotch">>, <<"groin">>, <<"pubic mound">>, <<"thong line">>,
          <<"cheek line">>, <<"butt curve">>, <<"butt shape">>, <<"butt profile">>,
          <<"butt silhouette">>, <<"ass contour">>, <<"ass line">>, <<"ass curve">>,
          <<"ass profile">>, <<"ass silhouette">>, <<"butt highlight">>, <<"butt shadow">>
       >>],
      [path |-> <<"Body", "Chest", "Chest.txt">>,
       entries |-> <<
          <<"chest">>, <<"upper chest">>, <<"lower chest">>, <<"sternum">>, <<"breastbone">>,
          <<"ribcage">>, <<"ribs">>, <<"collarbone">>, <<"clavicle">>, <<"cleavage">>,
          <<"decolletage">>, <<"bust">>, <<"bosom">>, <<"breasts">>, <<"breast curve">>,
          <<"breast contour">>, <<"breast line">>, <<"breast silhouette">>, <<"breast profile">>,
          <<"bustline">>, <<"bust curve">>, <<"bust contour">>, <<"bust profile">>,
          <<"bust silhouette">>, <<"chest curve">>, <<"chest contour">>, <<"chest line">>,
          <<"chest profile">>, <<"chest silhouette">>, <<"chest shape">>, <<"chest center">>,
          <<"chest hollow">>, <<"chest highlight">>, <<"chest shadow">>, <<"breast base">>,
          <<"breast fold">>, <<"underbust">>, <<"upper bust">>, <<"inner bust">>,
          <<"outer bust">>, <<"bust gap">>, <<"breast separation">>, <<"breast spacing">>,
          <<"chest spacing">>, <<"chest symmetry">>, <<"chest lift">>, <<"chest movement">>,
          <<"bust movement">>, <<"bust sway">>, <<"bust bounce">>, <<"bust volume">>
       >>],
      [path |-> <<"Body", "Hands and Arms", "Hands.txt">>,
       entries |-> <<
          <<"hands">>, <<"fingers">>, <<"fingertips">>, <<"finger pads">>, <<"finger joints">>,
          <<"finger knuckles">>, <<"finger nails">>, <<"nails">>, <<"nail beds">>, <<"cuticles">>,
          <<"palms">>, <<"palm lines">>, <<"palm crease">>, <<"thumb">>, <<"index finger">>,
          <<"middle finger">>, <<"ring finger">>, <<"little finger">>, <<"wrist">>,
          <<"wrist bones">>, <<"wrist curve">>, <<"wrist line">>, <<"forearm">>,
          <<"forearm line">>, <<"forearm curve">>, <<"elbow">>, <<"elbow crease">>,
          <<"upper arm">>, <<"bicep">>, <<"tricep">>, <<"arm curve">>, <<"arm line">>,
          <<"arm contour">>, <<"arm silhouette">>, <<"hand pose">>, <<"hand gesture">>,
          <<"hand placement">>, <<"hand on hip">>, <<"hand in hair">>, <<"hand on thigh">>,
          <<"hand on waist">>, <<"hand on chest">>, <<"hand on neck">>, <<"hand on shoulder">>,
          <<"hand clasp">>, <<"hand grip">>, <<"arm bend">>, <<"arm extension">>, <<"arm cross">>,
          <<"arm lift">>, <<"arm raise">>, <<"arm reach">>
       >>],
      [path |-> <<"Body", "Legs and Feet", "Legs.txt">>,
       entries |-> <<
          <<"legs">>, <<"thighs">>, <<"thigh gap">>, <<"inner thigh">>, <<"outer thigh">>,
          <<"upper thigh">>, <<"lower thigh">>, <<"hip to thigh">>, <<"quad">>, <<"quads">>,
          <<"hamstring">>, <<"calf">>, <<"calves">>, <<"shin">>, <<"shin line">>, <<"knee">>,
          <<"knees">>, <<"knee cap">>, <<"knee crease">>, <<"leg line">>, <<"leg curve">>,
          <<"leg contour">>, <<"leg profile">>, <<"leg silhouette">>, <<"leg length">>,
          <<"leg shape">>, <<"leg stance">>, <<"leg cross">>, <<"leg extension">>, <<"leg bend">>,
          <<"leg lift">>, <<"leg raise">>, <<"leg press">>, <<"leg stretch">>, <<"long legs">>,
          <<"short legs">>, <<"slim legs">>, <<"toned legs">>, <<"curvy legs">>,
          <<"muscular legs">>, <<"smooth legs">>, <<"leg focus">>, <<"leg detail">>,
          <<"leg highlight">>, <<"leg shadow">>, <<"leg angle">>, <<"leg pose">>,
          <<"standing legs">>, <<"sitting legs">>, <<"crossed legs">>
       >>],
      [path |-> <<"Body", "Torso", "Torso.txt">>,
       entries |-> <<
          <<"torso">>, <<"waist">>, <<"hips">>, <<"hip line">>, <<"hip curve">>,
          <<"hip contour">>, <<"abdomen">>, <<"stomach">>, <<"belly">>, <<"navel">>,
          <<"navel ring">>, <<"abs">>, <<"abdominals">>, <<"waistline">>, <<"lower waist">>,
          <<"upper waist">>, <<"midriff">>, <<"side waist">>, <<"love handles">>, <<"obliques">>,
          <<"ribcage">>, <<"ribs">>, <<"back">>, <<"lower back">>, <<"upper back">>,
          <<"back curve">>, <<"back line">>, <<"back contour">>, <<"back profile">>,
          <<"back silhouette">>, <<"spine">>, <<"shoulders">>, <<"shoulder line">>,
          <<"shoulder curve">>, <<"shoulder contour">>, <<"shoulder blade">>, <<"collarbone">>,
          <<"clavicle">>, <<"neck">>, <<"nape">>, <<"torso line">>, <<"torso curve">>,
          <<"torso contour">>, <<"torso profile">>, <<"torso silhouette">>, <<"torso shape">>,
          <<"torso length">>, <<"body core">>, <<"body line">>, <<"body contour">>,
          <<"body profile">>, <<"body silhouette">>
       >>],
      [path |-> <<"Clothing", "90s", "Tops.txt">>,
       entries |-> <<
          <<"crop top">>, <<"baby tee">>, <<"tank top">>, <<"camisole">>,
          <<"spaghetti strap top">>, <<"tube top">>, <<"halter top">>, <<"mesh top">>,
          <<"sheer top">>, <<"button up shirt">>, <<"flannel shirt">>, <<"denim jacket">>,
          <<"bomber jacket">>, <<"windbreaker">>, <<"hoodie">>, <<"sweatshirt">>,
          <<"graphic tee">>, <<"ribbed tee">>, <<"henley shirt">>, <<"turtleneck">>,
          <<"mock neck top">>, <<"cardigan">>, <<"knit sweater">>, <<"pullover">>,
          <<"zip hoodie">>, <<"track jacket">>, <<"leather jacket">>, <<"fitted blazer">>,
          <<"oversized blazer">>, <<"vest">>, <<"corset top">>, <<"bustier">>, <<"lace top">>,
          <<"satin top">>, <<"velvet top">>, <<"sequin top">>, <<"halter camisole">>,
          <<"wrap top">>, <<"tie front top">>, <<"cowl neck top">>, <<"off shoulder top">>,
          <<"one shoulder top">>, <<"long sleeve tee">>, <<"short sleeve tee">>, <<"raglan tee">>,
          <<"baseball tee">>, <<"crewneck tee">>, <<"v neck tee">>, <<"scoop neck tee">>,
          <<"boat neck top">>
       >>],
      [path |-> <<"Clothing", "90s", "Bottoms.txt">>,
       entries |-> <<
          <<"baggy jeans">>, <<"mom jeans">>, <<"straight leg jeans">>, <<"bootcut jeans">>,
          <<"flare jeans">>, <<"wide leg jeans">>, <<"low rise jeans">>, <<"high rise jeans">>,
          <<"cargo pants">>, <<"track pants">>, <<"wind pants">>, <<"joggers">>, <<"leggings">>,
          <<"bike shorts">>, <<"shorts">>, <<"denim shorts">>, <<"pleated skirt">>,
          <<"mini skirt">>, <<"midi skirt">>, <<"maxi skirt">>, <<"slip skirt">>,
          <<"denim skirt">>, <<"cargo skirt">>, <<"pencil skirt">>, <<"a line skirt">>,
          <<"overalls">>, <<"overall shorts">>, <<"capri pants">>, <<"cropped pants">>,
          <<"boyfriend jeans">>, <<"skinny jeans">>, <<"raw hem jeans">>, <<"distressed jeans">>,
          <<"corduroy pants">>, <<"corduroy skirt">>, <<"satin pants">>, <<"leather pants">>,
          <<"vinyl pants">>, <<"pleated pants">>, <<"paperbag waist pants">>,
          <<"drawstring pants">>, <<"track shorts">>, <<"gym shorts">>, <<"tennis skirt">>,
          <<"wrap skirt">>, <<"skort">>, <<"culottes">>, <<"flare pants">>,
          <<"kick flare pants">>, <<"parachute pants">>
       >>],
      [path |-> <<"Clothing", "90s", "Dresses.txt">>,
       entries |-> <<
          <<"slip dress">>, <<"mini dress">>, <<"midi dress">>, <<"maxi dress">>,
          <<"bodycon dress">>, <<"tank dress">>, <<"t shirt dress">>, <<"sweater dress">>,
          <<"halter dress">>, <<"strapless dress">>, <<"spaghetti strap dress">>,
          <<"cami dress">>, <<"wrap dress">>, <<"fit and flare dress">>, <<"a line dress">>,
          <<"sheath dress">>, <<"shift dress">>, <<"babydoll dress">>, <<"empire waist dress">>,
          <<"peasant dress">>, <<"denim dress">>, <<"corduroy dress">>, <<"velvet dress">>,
          <<"satin dress">>, <<"lace dress">>, <<"mesh dress">>, <<"sequin dress">>,
          <<"glitter dress">>, <<"floral dress">>, <<"polka dot dress">>, <<"plaid dress">>,
          <<"striped dress">>, <<"ruched dress">>, <<"slit dress">>, <<"cowl neck dress">>,
          <<"off shoulder dress">>, <<"one shoulder dress">>, <<"backless dress">>,
          <<"halter mini dress">>, <<"halter maxi dress">>, <<"slip maxi dress">>,
          <<"slip mini dress">>, <<"shirt dress">>, <<"button front dress">>,
          <<"pinafore dress">>, <<"overall dress">>, <<"tank midi dress">>,
          <<"bodycon mini dress">>, <<"bodycon midi dress">>, <<"halter midi dress">>
       >>],
      [path |-> <<"Clothing", "Historical", "Eras.txt">>,
       entries |-> <<
          <<"ancient era">>, <<"classical era">>, <<"medieval era">>, <<"renaissance era">>,
          <<"baroque era">>, <<"rococo era">>, <<"georgian era">>, <<"regency era">>,
          <<"victorian era">>, <<"edwardian era">>, <<"gilded age">>, <<"belle epoque">>,
          <<"art nouveau era">>, <<"art deco era">>, <<"jazz age">>, <<"roaring twenties">>,
          <<"war era">>, <<"postwar era">>, <<"mid century era">>, <<"tudor era">>,
          <<"elizabethan era">>, <<"jacobean era">>, <<"carolingian era">>, <<"byzantine era">>,
          <<"roman era">>, <<"greek era">>, <<"egyptian era">>, <<"mesopotamian era">>,
          <<"prehistoric era">>, <<"stone age">>, <<"bronze age">>, <<"iron age">>,
          <<"viking age">>, <<"sengoku era">>, <<"heian era">>, <<"mughal era">>,
          <<"ottoman era">>, <<"persian era">>, <<"celtic era">>, <<"gaelic era">>,
          <<"colonial era">>, <<"frontier era">>, <<"civil era">>, <<"industrial era">>,
          <<"victorian gothic">>, <<"edwardian belle">>, <<"regency romance">>,
          <<"baroque court">>, <<"rococo court">>, <<"renaissance court">>
       >>],
      [path |-> <<"Clothing", "Historical", "Garments.txt">>,
       entries |-> <<
          <<"corset">>, <<"stays">>, <<"chemise">>, <<"petticoat">>, <<"crinoline">>,
          <<"bustle">>, <<"tunic">>, <<"toga">>, <<"chiton">>, <<"stola">>, <<"peplos">>,
          <<"robe">>, <<"gown">>, <<"cloak">>, <<"cape">>, <<"doublet">>, <<"jerkin">>,
          <<"hose">>, <<"breeches">>, <<"pantaloons">>, <<"shift">>, <<"smock">>, <<"waistcoat">>,
          <<"bodice">>, <<"kirtle">>, <<"surcoat">>, <<"tabard">>, <<"farthingale">>, <<"ruff">>,
          <<"corsage">>, <<"girdle">>, <<"sash">>, <<"sari">>, <<"kimono">>, <<"hanbok">>,
          <<"qipao">>, <<"cheongsam">>, <<"kaftan">>, <<"abaya">>, <<"caftan">>, <<"haori">>,
          <<"hakama">>, <<"sarong">>, <<"wrap skirt">>, <<"shawl">>, <<"mantle">>, <<"veil">>,
          <<"headdress">>, <<"bonnet">>, <<"corset belt">>, <<"lace collar">>
       >>],
      [path |-> <<"Footwear", "Heels", "Heels.txt">>,
       entries |-> <<
          <<"stiletto heels">>, <<"kitten heels">>, <<"block heels">>, <<"chunky heels">>,
          <<"platform heels">>, <<"wedge heels">>, <<"pumps">>, <<"court shoes">>,
          <<"peep toe heels">>, <<"open toe heels">>, <<"closed toe heels">>,
          <<"ankle strap heels">>, <<"T strap heels">>, <<"slingback heels">>, <<"dorsay heels">>,
          <<"mary jane heels">>, <<"cage heels">>, <<"strappy heels">>, <<"lace up heels">>,
          <<"mule heels">>, <<"slide heels">>, <<"espadrille heels">>, <<"cone heels">>,
          <<"spool heels">>, <<"flared heels">>, <<"sculpted heels">>, <<"stacked heels">>,
          <<"high heel sandals">>, <<"evening heels">>, <<"dance heels">>, <<"bridal heels">>,
          <<"office heels">>, <<"patent heels">>, <<"suede heels">>, <<"leather heels">>,
          <<"mesh heels">>, <<"satin heels">>, <<"velvet heels">>, <<"croc heels">>,
          <<"pointed toe heels">>, <<"round toe heels">>, <<"square toe heels">>,
          <<"clear heel sandals">>, <<"perspex heels">>, <<"cap toe heels">>, <<"cutout heels">>,
          <<"two piece heels">>, <<"wraparound heels">>, <<"architectural heels">>,
          <<"lucite heels">>
       >>],
      [path |-> <<"Footwear", "Boots", "Boots.txt">>,
       entries |-> <<
          <<"ankle boots">>, <<"chelsea boots">>, <<"combat boots">>, <<"knee high boots">>,
          <<"over the knee boots">>, <<"thigh high boots">>, <<"platform boots">>,
          <<"stiletto boots">>, <<"block heel boots">>, <<"wedge boots">>, <<"lace up boots">>,
          <<"zipper boots">>, <<"buckled boots">>, <<"riding boots">>, <<"western boots">>,
          <<"cowgirl boots">>, <<"motorcycle boots">>, <<"harness boots">>, <<"work boots">>,
          <<"hiking boots">>, <<"snow boots">>, <<"rain boots">>, <<"rubber boots">>,
          <<"leather boots">>, <<"suede boots">>, <<"patent boots">>, <<"chunky boots">>,
          <<"slouch boots">>, <<"sock boots">>, <<"cutout boots">>, <<"peep toe boots">>,
          <<"open toe boots">>, <<"side zip boots">>, <<"front zip boots">>, <<"back zip boots">>,
          <<"pull on boots">>, <<"mid calf boots">>, <<"lug sole boots">>, <<"crepe sole boots">>,
          <<"platform ankle boots">>, <<"kitten heel boots">>, <<"stacked heel boots">>,
          <<"knee high riding boots">>, <<"over the knee stretch boots">>,
          <<"thigh high lace up boots">>, <<"combat ankle boots">>, <<"western ankle boots">>,
          <<"work ankle boots">>, <<"rain ankle boots">>, <<"alpine boots">>
       >>],
      [path |-> <<"Footwear", "Sandals", "Sandals.txt">>,
       entries |-> <<
          <<"flat sandals">>, <<"slide sandals">>, <<"thong sandals">>, <<"strappy sandals">>,
          <<"gladiator sandals">>, <<"ankle strap sandals">>, <<"toe ring sandals">>,
          <<"slingback sandals">>, <<"mule sandals">>, <<"espadrille sandals">>,
          <<"platform sandals">>, <<"wedge sandals">>, <<"block heel sandals">>,
          <<"kitten heel sandals">>, <<"stiletto sandals">>, <<"sport sandals">>,
          <<"hiking sandals">>, <<"fisherman sandals">>, <<"jelly sandals">>, <<"cork sandals">>,
          <<"braided sandals">>, <<"lace up sandals">>, <<"crisscross sandals">>,
          <<"T strap sandals">>, <<"cage sandals">>, <<"cutout sandals">>, <<"peep toe sandals">>,
          <<"open toe sandals">>, <<"buckle sandals">>, <<"wraparound sandals">>,
          <<"crossover sandals">>, <<"two strap sandals">>, <<"three strap sandals">>,
          <<"multi strap sandals">>, <<"slip on sandals">>, <<"beach sandals">>,
          <<"pool sandals">>, <<"flip flops">>, <<"foam sandals">>, <<"rubber sandals">>,
          <<"leather sandals">>, <<"suede sandals">>, <<"satin sandals">>, <<"canvas sandals">>,
          <<"mesh sandals">>, <<"knit sandals">>, <<"ankle tie sandals">>, <<"platform slides">>,
          <<"heeled slides">>, <<"minimalist sandals">>
       >>],
      [path |-> <<"Footwear", "Sneakers", "Sneakers.txt">>,
       entries |-> <<
          <<"low top sneakers">>, <<"high top sneakers">>, <<"mid top sneakers">>,
          <<"slip on sneakers">>, <<"lace up sneakers">>, <<"canvas sneakers">>,
          <<"leather sneakers">>, <<"suede sneakers">>, <<"knit sneakers">>, <<"mesh sneakers">>,
          <<"running shoes">>, <<"training shoes">>, <<"cross trainers">>, <<"basketball shoes">>,
          <<"tennis shoes">>, <<"walking shoes">>, <<"skate shoes">>, <<"vulcanized sneakers">>,
          <<"cupsole sneakers">>, <<"platform sneakers">>, <<"chunky sneakers">>,
          <<"retro sneakers">>, <<"minimalist sneakers">>, <<"trail runners">>, <<"track shoes">>,
          <<"court sneakers">>, <<"lifestyle sneakers">>, <<"fashion sneakers">>,
          <<"sport sneakers">>, <<"gym sneakers">>, <<"court trainers">>, <<"street sneakers">>,
          <<"casual sneakers">>, <<"low profile sneakers">>, <<"high profile sneakers">>,
          <<"sock sneakers">>, <<"insulated sneakers">>, <<"waterproof sneakers">>,
          <<"laceless sneakers">>, <<"elastic lace sneakers">>, <<"knit upper sneakers">>,
          <<"foam sole sneakers">>, <<"air cushioned sneakers">>, <<"gel cushioned sneakers">>,
          <<"crossfit shoes">>, <<"dance sneakers">>, <<"skate high tops">>,
          <<"hiking sneakers">>, <<"court runners">>, <<"everyday sneakers">>
       >>],
      [path |-> <<"Footwear", "Flats", "Flats.txt">>,
       entries |-> <<
          <<"ballet flats">>, <<"pointed toe flats">>, <<"round toe flats">>,
          <<"square toe flats">>, <<"dorsay flats">>, <<"mary jane flats">>, <<"loafers">>,
          <<"penny loafers">>, <<"tassel loafers">>, <<"driving moccasins">>, <<"moccasins">>,
          <<"boat shoes">>, <<"oxfords">>, <<"derby shoes">>, <<"brogues">>, <<"lace up flats">>,
          <<"slip on flats">>, <<"espadrille flats">>, <<"flat mules">>, <<"flat slides">>,
          <<"slingback flats">>, <<"ankle strap flats">>, <<"T strap flats">>,
          <<"peep toe flats">>, <<"open toe flats">>, <<"cap toe flats">>, <<"cutout flats">>,
          <<"woven flats">>, <<"braided flats">>, <<"knit flats">>, <<"mesh flats">>,
          <<"leather flats">>, <<"suede flats">>, <<"canvas flats">>, <<"rubber flats">>,
          <<"platform flats">>, <<"flatforms">>, <<"skimmer flats">>, <<"ballerina shoes">>,
          <<"smoking slippers">>, <<"house slippers">>, <<"scuff slippers">>, <<"mule slippers">>,
          <<"espadrille shoes">>, <<"fisherman flats">>, <<"gladiator flats">>, <<"thong flats">>,
          <<"toe ring flats">>, <<"ankle wrap flats">>, <<"foldable flats">>
       >>],
      [path |-> <<"Feet", "Toes", "Toes.txt">>,
       entries |-> <<
          <<"toes">>, <<"big toe">>, <<"second toe">>, <<"middle toe">>, <<"fourth toe">>,
          <<"little toe">>, <<"toe tips">>, <<"toe pads">>, <<"toe knuckles">>, <<"toe joints">>,
          <<"toe spread">>, <<"toe splay">>, <<"toe curl">>, <<"toe point">>, <<"toe flex">>,
          <<"toe wiggle">>, <<"toe lift">>, <<"toe press">>, <<"toe grip">>, <<"toe extension">>,
          <<"toe nails">>, <<"toenails">>, <<"toenail beds">>, <<"toe cuticles">>,
          <<"toe ridges">>, <<"toe rings">>, <<"toe separators">>, <<"toe alignment">>,
          <<"toe arch">>, <<"toe crease">>, <<"toe webbing">>, <<"toe fan">>, <<"toe line">>,
          <<"toe silhouette">>, <<"toe profile">>, <<"toe shape">>, <<"toe length">>,
          <<"toe spacing">>, <<"toe taper">>, <<"toe mound">>, <<"toe bridge">>, <<"toe base">>,
          <<"toe tip curve">>, <<"toe tip line">>, <<"toe print">>, <<"toe focus">>,
          <<"toe pose">>, <<"toe point pose">>, <<"toe curl pose">>, <<"toe press pose">>
       >>],
      [path |-> <<"Feet", "Soles", "Soles.txt">>,
       entries |-> <<
          <<"soles">>, <<"foot soles">>, <<"sole curve">>, <<"sole line">>, <<"sole arch">>,
          <<"heel pad">>, <<"ball of foot">>, <<"midfoot">>, <<"forefoot">>, <<"instep">>,
          <<"footbed">>, <<"foot print">>, <<"sole print">>, <<"sole texture">>,
          <<"sole contour">>, <<"sole crease">>, <<"sole flex">>, <<"sole stretch">>,
          <<"sole press">>, <<"sole contact">>, <<"sole lift">>, <<"sole arch line">>,
          <<"sole ridge">>, <<"sole hollow">>, <<"sole edge">>, <<"sole outline">>,
          <<"sole profile">>, <<"sole shape">>, <<"sole surface">>, <<"sole plane">>,
          <<"sole angle">>, <<"sole shadow">>, <<"sole highlight">>, <<"sole focus">>,
          <<"sole detail">>, <<"heel cup">>, <<"heel edge">>, <<"heel curve">>, <<"heel line">>,
          <<"heel silhouette">>, <<"ball line">>, <<"ball curve">>, <<"ball ridge">>,
          <<"ball press">>, <<"instep line">>, <<"instep curve">>, <<"midfoot line">>,
          <<"midfoot curve">>, <<"sole center">>, <<"sole tip">>
       >>],
      [path |-> <<"Feet", "Ankles", "Ankles.txt">>,
       entries |-> <<
          <<"ankles">>, <<"ankle bone">>, <<"ankle joint">>, <<"ankle curve">>, <<"ankle line">>,
          <<"ankle hollow">>, <<"ankle point">>, <<"ankle ridge">>, <<"ankle silhouette">>,
          <<"ankle profile">>, <<"ankle contour">>, <<"ankle taper">>, <<"ankle width">>,
          <<"ankle height">>, <<"ankle flex">>, <<"ankle bend">>, <<"ankle extension">>,
          <<"ankle rotation">>, <<"ankle stance">>, <<"ankle alignment">>, <<"ankle angle">>,
          <<"ankle crease">>, <<"ankle dimple">>, <<"ankle highlight">>, <<"ankle shadow">>,
          <<"ankle focus">>, <<"ankle detail">>, <<"inner ankle">>, <<"outer ankle">>,
          <<"ankle top">>, <<"ankle base">>, <<"ankle bridge">>, <<"ankle slope">>,
          <<"ankle point line">>, <<"ankle point curve">>, <<"ankle socket">>,
          <<"ankle line view">>, <<"ankle side view">>, <<"ankle front view">>,
          <<"ankle back view">>, <<"ankle support">>, <<"ankle tension">>, <<"ankle stretch">>,
          <<"ankle press">>, <<"ankle lift">>, <<"ankle lock">>, <<"ankle sway">>,
          <<"ankle turnout">>, <<"ankle point pose">>, <<"ankle roll">>
       >>],
      [path |-> <<"Feet", "Arches", "Arches.txt">>,
       entries |-> <<
          <<"arches">>, <<"foot arch">>, <<"high arch">>, <<"low arch">>, <<"medium arch">>,
          <<"arch curve">>, <<"arch line">>, <<"arch ridge">>, <<"arch hollow">>,
          <<"arch crest">>, <<"arch peak">>, <<"arch slope">>, <<"arch angle">>,
          <<"arch height">>, <<"arch length">>, <<"arch shape">>, <<"arch profile">>,
          <<"arch silhouette">>, <<"arch detail">>, <<"arch focus">>, <<"arch contour">>,
          <<"arch flex">>, <<"arch stretch">>, <<"arch tension">>, <<"arch press">>,
          <<"arch lift">>, <<"arch bend">>, <<"arch support">>, <<"arch spread">>,
          <<"arch narrow">>, <<"arch wide">>, <<"arch center">>, <<"arch base">>,
          <<"arch point">>, <<"arch rise">>, <<"arch dip">>, <<"arch spring">>, <<"arch view">>,
          <<"instep arch">>, <<"midfoot arch">>, <<"heel arch">>, <<"arch line view">>,
          <<"arch side view">>, <<"arch front view">>, <<"arch back view">>, <<"arch shadow">>,
          <<"arch highlight">>, <<"arch crease">>, <<"arch ridge line">>, <<"arch curve line">>
       >>],
      [path |-> <<"Feet", "Pedicure", "Pedicure.txt">>,
       entries |-> <<
          <<"pedicure">>, <<"toenail polish">>, <<"toenail gloss">>, <<"toenail shine">>,
          <<"toenail finish">>, <<"toenail art">>, <<"toenail decals">>, <<"toenail gems">>,
          <<"toenail studs">>, <<"toenail stripes">>, <<"toenail dots">>, <<"toenail lines">>,
          <<"toenail tips">>, <<"french tips">>, <<"toe nail shape">>, <<"square nails">>,
          <<"squoval nails">>, <<"round nails">>, <<"oval nails">>, <<"almond nails">>,
          <<"coffin nails">>, <<"stiletto nails">>, <<"short nails">>, <<"medium nails">>,
          <<"long nails">>, <<"toe cuticle care">>, <<"cuticle oil">>, <<"cuticle push">>,
          <<"nail buffer">>, <<"nail file">>, <<"nail clip">>, <<"nail trim">>, <<"nail care">>,
          <<"nail scrub">>, <<"nail soak">>, <<"foot scrub">>, <<"foot soak">>, <<"foot lotion">>,
          <<"foot oil">>, <<"foot balm">>, <<"heel cream">>, <<"callus file">>,
          <<"callus stone">>, <<"pumice stone">>, <<"foot mask">>, <<"toe separator">>,
          <<"toe spacer">>, <<"toe splint">>, <<"nail strengthener">>, <<"nail top coat">>
       >>],
      [path |-> <<"Boobs", "Breasts", "Breasts.txt">>,
       entries |-> <<
          <<"breasts">>, <<"bust">>, <<"bosom">>, <<"chest">>, <<"mammaries">>,
          <<"breast tissue">>, <<"breast curve">>, <<"breast contour">>, <<"breast shape">>,
          <<"breast line">>, <<"breast profile">>, <<"breast silhouette">>, <<"breast fullness">>,
          <<"breast volume">>, <<"breast form">>, <<"breast mound">>, <<"breast peak">>,
          <<"breast slope">>, <<"breast crease">>, <<"breast fold">>, <<"breast base">>,
          <<"breast root">>, <<"breast projection">>, <<"breast roundness">>,
          <<"breast symmetry">>, <<"breast spacing">>, <<"breast separation">>, <<"breast lift">>,
          <<"breast hang">>, <<"breast weight">>, <<"breast bounce">>, <<"breast sway">>,
          <<"breast jiggle">>, <<"breast movement">>, <<"bustline">>, <<"bust curve">>,
          <<"bust contour">>, <<"bust profile">>, <<"bust silhouette">>, <<"bust shape">>,
          <<"bust fullness">>, <<"bust volume">>, <<"bust form">>, <<"bust mound">>,
          <<"chest curve">>, <<"chest contour">>, <<"chest line">>, <<"chest profile">>,
          <<"chest silhouette">>, <<"chest shape">>
       >>],
      [path |-> <<"Boobs", "Cleavage", "Cleavage.txt">>,
       entries |-> <<
          <<"cleavage">>, <<"decolletage">>, <<"bustline">>, <<"cleavage line">>,
          <<"cleavage curve">>, <<"cleavage contour">>, <<"cleavage shadow">>,
          <<"cleavage highlight">>, <<"cleavage depth">>, <<"cleavage gap">>,
          <<"cleavage valley">>, <<"cleavage channel">>, <<"cleavage center">>,
          <<"cleavage seam">>, <<"cleavage ridge">>, <<"cleavage edge">>, <<"cleavage slope">>,
          <<"cleavage line view">>, <<"cleavage profile">>, <<"cleavage silhouette">>,
          <<"bust separation">>, <<"bust gap">>, <<"bust valley">>, <<"breast separation">>,
          <<"breast gap">>, <<"breast valley">>, <<"chest valley">>, <<"chest gap">>,
          <<"chest line">>, <<"neckline">>, <<"neckline dip">>, <<"neckline curve">>,
          <<"neckline line">>, <<"decolletage line">>, <<"decolletage curve">>,
          <<"decolletage contour">>, <<"decolletage shadow">>, <<"decolletage highlight">>,
          <<"upper chest">>, <<"upper bust">>, <<"upper cleavage">>, <<"center bust">>,
          <<"center chest">>, <<"inner bust">>, <<"inner chest">>, <<"cleavage focus">>,
          <<"cleavage detail">>, <<"cleavage depth line">>, <<"cleavage crease">>,
          <<"cleavage fold">>
       >>],
      [path |-> <<"Boobs", "Nipples", "Nipples.txt">>,
       entries |-> <<
          <<"nipples">>, <<"nipple tips">>, <<"nipple buds">>, <<"nipple points">>,
          <<"nipple peaks">>, <<"nipple heads">>, <<"nipple base">>, <<"nipple areola">>,
          <<"nipple ring">>, <<"nipple edge">>, <<"nipple center">>, <<"nipple texture">>,
          <<"nipple detail">>, <<"nipple profile">>, <<"nipple silhouette">>,
          <<"nipple contour">>, <<"nipple shadow">>, <<"nipple highlight">>, <<"nipple ridge">>,
          <<"nipple crease">>, <<"nipple line">>, <<"nipple shape">>, <<"nipple size">>,
          <<"nipple height">>, <<"nipple angle">>, <<"nipple tilt">>, <<"nipple projection">>,
          <<"nipple mound">>, <<"nipple bump">>, <<"nipple poke">>, <<"nipple pinch">>,
          <<"nipple press">>, <<"nipple lift">>, <<"nipple drop">>, <<"nipple curve">>,
          <<"nipple focus">>, <<"nipple view">>, <<"nipple front view">>, <<"nipple side view">>,
          <<"nipple down view">>, <<"nipple closeup">>, <<"nipple ring view">>,
          <<"nipple piercings">>, <<"nipple barbell">>, <<"nipple stud">>, <<"nipple shield">>,
          <<"nipple jewelry">>, <<"nipple adornment">>, <<"nipple sensitivity">>,
          <<"nipple hardness">>
       >>],
      [path |-> <<"Boobs", "Areola", "Areola.txt">>,
       entries |-> <<
          <<"areola">>, <<"areola ring">>, <<"areola edge">>, <<"areola border">>,
          <<"areola circle">>, <<"areola disk">>, <<"areola tint">>, <<"areola tone">>,
          <<"areola texture">>, <<"areola detail">>, <<"areola profile">>,
          <<"areola silhouette">>, <<"areola contour">>, <<"areola shadow">>,
          <<"areola highlight">>, <<"areola size">>, <<"areola shape">>, <<"areola diameter">>,
          <<"areola radius">>, <<"areola center">>, <<"areola line">>, <<"areola crease">>,
          <<"areola ridge">>, <<"areola bump">>, <<"areola swell">>, <<"areola stretch">>,
          <<"areola press">>, <<"areola lift">>, <<"areola drop">>, <<"areola curve">>,
          <<"areola focus">>, <<"areola view">>, <<"areola front view">>, <<"areola side view">>,
          <<"areola top view">>, <<"areola closeup">>, <<"areola surface">>,
          <<"areola texture line">>, <<"areola grain">>, <<"areola pores">>, <<"areola dots">>,
          <<"areola bumps">>, <<"areola ring line">>, <<"areola ring curve">>,
          <<"areola ring edge">>, <<"areola ring shape">>, <<"areola ring size">>,
          <<"areola ring view">>, <<"areola ring detail">>, <<"areola ring focus">>
       >>],
      [path |-> <<"Boobs", "Underbust", "Underbust.txt">>,
       entries |-> <<
          <<"underbust">>, <<"underbust line">>, <<"underbust curve">>, <<"underbust contour">>,
          <<"underbust shadow">>, <<"underbust highlight">>, <<"underbust fold">>,
          <<"breast fold">>, <<"inframammary fold">>, <<"underbust crease">>,
          <<"underbust ridge">>, <<"underbust edge">>, <<"underbust slope">>,
          <<"underbust base">>, <<"underbust root">>, <<"underbust profile">>,
          <<"underbust silhouette">>, <<"underbust detail">>, <<"underbust focus">>,
          <<"underbust angle">>, <<"underbust depth">>, <<"underbust gap">>,
          <<"underbust valley">>, <<"underbust line view">>, <<"underbust front view">>,
          <<"underbust side view">>, <<"underbust top view">>, <<"underbust closeup">>,
          <<"underbust contour line">>, <<"underbust curve line">>, <<"underbust crease line">>,
          <<"underbust fold line">>, <<"breast base">>, <<"breast root line">>,
          <<"breast lower curve">>, <<"lower bust">>, <<"lower breast">>, <<"lower chest">>,
          <<"lower bustline">>, <<"lower chest line">>, <<"underbust seam">>,
          <<"underbust ridge line">>, <<"underbust detail line">>, <<"underbust highlight line">>,
          <<"underbust shadow line">>, <<"underbust skin">>, <<"underbust texture">>,
          <<"underbust shape">>, <<"underbust span">>, <<"underbust width">>
       >>],
      [path |-> <<"Cosplay", "Outfits", "Outfits.txt">>,
       entries |-> <<
          <<"maid outfit">>, <<"nurse outfit">>, <<"doctor outfit">>, <<"police outfit">>,
          <<"detective outfit">>, <<"secretary outfit">>, <<"office outfit">>,
          <<"business suit">>, <<"cocktail dress">>, <<"evening gown">>, <<"bodysuit">>,
          <<"catsuit">>, <<"latex catsuit">>, <<"leather catsuit">>, <<"jumpsuit">>,
          <<"flight attendant outfit">>, <<"pilot outfit">>, <<"bartender outfit">>,
          <<"waitress outfit">>, <<"chef outfit">>, <<"mechanic outfit">>, <<"artist outfit">>,
          <<"photographer outfit">>, <<"librarian outfit">>, <<"scientist outfit">>,
          <<"lab coat outfit">>, <<"firefighter outfit">>, <<"lifeguard outfit">>,
          <<"racer outfit">>, <<"biker outfit">>, <<"cowgirl outfit">>, <<"pirate outfit">>,
          <<"sailor outfit">>, <<"space suit">>, <<"astronaut suit">>, <<"superhero suit">>,
          <<"spy suit">>, <<"agent outfit">>, <<"fantasy gown">>, <<"princess gown">>,
          <<"queen gown">>, <<"goddess outfit">>, <<"fairy outfit">>, <<"angel outfit">>,
          <<"devil outfit">>, <<"witch outfit">>, <<"vampire outfit">>, <<"mermaid outfit">>,
          <<"mage outfit">>, <<"sorceress outfit">>
       >>],
      [path |-> <<"Cosplay", "Uniforms", "Uniforms.txt">>,
       entries |-> <<
          <<"police uniform">>, <<"military uniform">>, <<"navy uniform">>,
          <<"air force uniform">>, <<"army uniform">>, <<"coast guard uniform">>,
          <<"flight attendant uniform">>, <<"pilot uniform">>, <<"nurse uniform">>,
          <<"doctor uniform">>, <<"surgeon scrubs">>, <<"hospital scrubs">>,
          <<"paramedic uniform">>, <<"firefighter uniform">>, <<"lifeguard uniform">>,
          <<"chef uniform">>, <<"waiter uniform">>, <<"waitress uniform">>,
          <<"bartender uniform">>, <<"barista uniform">>, <<"hotel uniform">>,
          <<"concierge uniform">>, <<"maid uniform">>, <<"housekeeper uniform">>,
          <<"security uniform">>, <<"prison guard uniform">>, <<"detective uniform">>,
          <<"postal uniform">>, <<"courier uniform">>, <<"delivery uniform">>,
          <<"mechanic uniform">>, <<"factory uniform">>, <<"lab uniform">>,
          <<"scientist uniform">>, <<"teacher uniform">>, <<"librarian uniform">>,
          <<"office uniform">>, <<"corporate uniform">>, <<"airline uniform">>,
          <<"train conductor uniform">>, <<"bus driver uniform">>, <<"taxi driver uniform">>,
          <<"racing uniform">>, <<"biker uniform">>, <<"sailor uniform">>, <<"cruise uniform">>,
          <<"spa uniform">>, <<"yoga instructor uniform">>, <<"dance uniform">>,
          <<"stage uniform">>
       >>],
      [path |-> <<"Cosplay", "Characters", "Characters.txt">>,
       entries |-> <<
          <<"witch">>, <<"sorceress">>, <<"mage">>, <<"enchantress">>, <<"goddess">>, <<"queen">>,
          <<"princess">>, <<"priestess">>, <<"oracle">>, <<"seer">>, <<"angel">>, <<"devil">>,
          <<"demon">>, <<"vampire">>, <<"fairy">>, <<"elf">>, <<"mermaid">>, <<"siren">>,
          <<"nymph">>, <<"dryad">>, <<"astronaut">>, <<"space explorer">>, <<"space captain">>,
          <<"star pilot">>, <<"galactic officer">>, <<"time traveler">>, <<"android">>,
          <<"cyborg">>, <<"robotic woman">>, <<"alien woman">>, <<"pirate captain">>,
          <<"cowgirl">>, <<"sailor">>, <<"spy">>, <<"agent">>, <<"detective">>,
          <<"archaeologist">>, <<"adventurer">>, <<"explorer">>, <<"librarian">>, <<"artist">>,
          <<"musician">>, <<"dancer">>, <<"ballerina">>, <<"chef">>, <<"bartender">>,
          <<"photographer">>, <<"model">>, <<"actress">>, <<"singer">>
       >>],
      [path |-> <<"Cosplay", "Accessories", "Accessories.txt">>,
       entries |-> <<
          <<"wig">>, <<"cape">>, <<"cloak">>, <<"mask">>, <<"eye mask">>, <<"tiara">>,
          <<"crown">>, <<"headpiece">>, <<"horns">>, <<"halo">>, <<"wings">>, <<"tail">>,
          <<"cat ears">>, <<"bunny ears">>, <<"headband">>, <<"choker">>, <<"collar">>,
          <<"arm cuffs">>, <<"arm bands">>, <<"gauntlets">>, <<"leg bands">>, <<"garter">>,
          <<"belt">>, <<"utility belt">>, <<"pouch">>, <<"satchel">>, <<"sash">>,
          <<"shoulder straps">>, <<"back harness">>, <<"body harness">>, <<"goggles">>,
          <<"visor">>, <<"face paint">>, <<"body paint">>, <<"tattoo decals">>, <<"stickers">>,
          <<"patches">>, <<"badges">>, <<"emblems">>, <<"brooch">>, <<"bracelet stack">>,
          <<"ring stack">>, <<"anklet">>, <<"glovelets">>, <<"fingerless gloves">>,
          <<"thigh highs">>, <<"stockings">>, <<"fishnet stockings">>, <<"leggings">>,
          <<"arm sleeves">>
       >>],
      [path |-> <<"Cosplay", "Themes", "Themes.txt">>,
       entries |-> <<
          <<"steampunk">>, <<"cyberpunk">>, <<"sci fi">>, <<"fantasy">>, <<"dark fantasy">>,
          <<"urban fantasy">>, <<"high fantasy">>, <<"space opera">>, <<"retro futurism">>,
          <<"retro">>, <<"vintage">>, <<"noir">>, <<"gothic">>, <<"victorian">>, <<"edwardian">>,
          <<"baroque">>, <<"rococo">>, <<"art deco">>, <<"art nouveau">>, <<"modern">>,
          <<"minimalist">>, <<"futuristic">>, <<"dystopian">>, <<"utopian">>, <<"mythic">>,
          <<"folklore">>, <<"fairy tale">>, <<"storybook">>, <<"celestial">>, <<"cosmic">>,
          <<"astral">>, <<"neon">>, <<"techwear">>, <<"streetwear">>, <<"glam">>, <<"pinup">>,
          <<"burlesque">>, <<"cabaret">>, <<"circus">>, <<"carnival">>, <<"festival">>,
          <<"masquerade">>, <<"opera">>, <<"ballroom">>, <<"royal court">>, <<"ancient">>,
          <<"classical">>, <<"medieval">>, <<"renaissance">>, <<"industrial">>
       >>],
      [path |-> <<"Locations", "Indoor", "Indoor.txt">>,
       entries |-> <<
          <<"bedroom">>, <<"living room">>, <<"bathroom">>, <<"shower">>, <<"bathtub">>,
          <<"kitchen">>, <<"dining room">>, <<"hallway">>, <<"staircase">>, <<"home office">>,
          <<"hotel room">>, <<"suite">>, <<"penthouse">>, <<"apartment">>, <<"loft">>,
          <<"studio room">>, <<"dressing room">>, <<"walk in closet">>, <<"vanity room">>,
          <<"lounge">>, <<"bar">>, <<"club interior">>, <<"restaurant">>, <<"cafe">>,
          <<"library">>, <<"gallery">>, <<"museum">>, <<"theater">>, <<"backstage">>,
          <<"green room">>, <<"spa">>, <<"sauna">>, <<"steam room">>, <<"gym">>,
          <<"yoga studio">>, <<"dance studio">>, <<"ballroom">>, <<"conservatory">>,
          <<"sunroom">>, <<"atrium">>, <<"indoor pool">>, <<"locker room">>,
          <<"conference room">>, <<"meeting room">>, <<"showroom">>, <<"boutique">>, <<"salon">>,
          <<"beauty studio">>, <<"photo studio">>, <<"casting room">>
       >>],
      [path |-> <<"Locations", "Outdoor", "Outdoor.txt">>,
       entries |-> <<
          <<"beach">>, <<"shoreline">>, <<"seaside">>, <<"oceanfront">>, <<"poolside">>,
          <<"garden">>, <<"park">>, <<"courtyard">>, <<"balcony">>, <<"terrace">>, <<"rooftop">>,
          <<"patio">>, <<"porch">>, <<"driveway">>, <<"street">>, <<"alley">>, <<"plaza">>,
          <<"market">>, <<"boardwalk">>, <<"pier">>, <<"harbor">>, <<"marina">>, <<"fountain">>,
          <<"statue garden">>, <<"orchard">>, <<"vineyard">>, <<"meadow">>, <<"field">>,
          <<"trail">>, <<"lakeside">>, <<"riverbank">>, <<"waterfall">>, <<"forest edge">>,
          <<"mountain view">>, <<"hilltop">>, <<"desert">>, <<"dunes">>, <<"cliff">>,
          <<"canyon">>, <<"valley">>, <<"outdoor cafe">>, <<"outdoor bar">>,
          <<"festival ground">>, <<"stadium">>, <<"amphitheater">>, <<"botanical garden">>,
          <<"greenhouse exterior">>, <<"farmyard">>, <<"coastal road">>, <<"sunset overlook">>
       >>],
      [path |-> <<"Locations", "Urban", "Urban.txt">>,
       entries |-> <<
          <<"city street">>, <<"downtown">>, <<"financial district">>, <<"neon street">>,
          <<"alleyway">>, <<"crosswalk">>, <<"subway platform">>, <<"train station">>,
          <<"bus stop">>, <<"taxi stand">>, <<"skyscraper lobby">>, <<"office plaza">>,
          <<"shopping arcade">>, <<"mall">>, <<"boutique street">>, <<"rooftop bar">>,
          <<"parking garage">>, <<"stairwell">>, <<"bridge">>, <<"overpass">>, <<"underpass">>,
          <<"graffiti wall">>, <<"brick alley">>, <<"industrial yard">>, <<"warehouse exterior">>,
          <<"loading dock">>, <<"construction site">>, <<"food market">>, <<"night market">>,
          <<"street cafe">>, <<"city park">>, <<"fountain plaza">>, <<"public square">>,
          <<"riverwalk">>, <<"boardwalk">>, <<"harbor front">>, <<"marina walk">>,
          <<"city skyline">>, <<"urban rooftop">>, <<"apartment balcony">>, <<"fire escape">>,
          <<"city steps">>, <<"metro entrance">>, <<"street corner">>, <<"sidewalk">>,
          <<"streetlight">>, <<"newsstand">>, <<"corner store">>, <<"city gate">>,
          <<"city alley">>
       >>],
      [path |-> <<"Locations", "Nature", "Nature.txt">>,
       entries |-> <<
          <<"forest">>, <<"woodland">>, <<"rainforest">>, <<"pine forest">>, <<"birch forest">>,
          <<"meadow">>, <<"prairie">>, <<"grassland">>, <<"valley">>, <<"mountain">>, <<"hill">>,
          <<"ridge">>, <<"cliff">>, <<"canyon">>, <<"desert">>, <<"dunes">>, <<"oasis">>,
          <<"riverbank">>, <<"stream">>, <<"waterfall">>, <<"lake">>, <<"lakeside">>, <<"pond">>,
          <<"wetlands">>, <<"marsh">>, <<"beach">>, <<"coast">>, <<"cove">>, <<"lagoon">>,
          <<"island">>, <<"orchard">>, <<"vineyard">>, <<"field">>, <<"wildflower field">>,
          <<"rocky shore">>, <<"tide pools">>, <<"cave entrance">>, <<"glacier">>,
          <<"snowfield">>, <<"alpine meadow">>, <<"sunset overlook">>, <<"forest clearing">>,
          <<"bamboo grove">>, <<"grove">>, <<"garden">>, <<"botanical garden">>, <<"stone path">>,
          <<"forest trail">>, <<"mountain trail">>, <<"riverside">>
       >>],
      [path |-> <<"Locations", "Studio", "Studio.txt">>,
       entries |-> <<
          <<"photo studio">>, <<"cyclorama">>, <<"seamless backdrop">>, <<"paper sweep">>,
          <<"fabric sweep">>, <<"backdrop stand">>, <<"lighting rig">>, <<"softbox wall">>,
          <<"window light set">>, <<"portrait set">>, <<"beauty set">>, <<"fashion set">>,
          <<"editorial set">>, <<"product set">>, <<"minimal set">>, <<"grid wall set">>,
          <<"textured wall set">>, <<"corner set">>, <<"studio corner">>, <<"blackout studio">>,
          <<"white studio">>, <<"industrial studio">>, <<"loft studio">>, <<"daylight studio">>,
          <<"soundstage">>, <<"stage set">>, <<"backlot set">>, <<"set wall">>, <<"prop wall">>,
          <<"stool set">>, <<"chair set">>, <<"couch set">>, <<"bed set">>, <<"vanity set">>,
          <<"mirror set">>, <<"chair and table set">>, <<"platform set">>, <<"raised platform">>,
          <<"floor sweep set">>, <<"paper roll set">>, <<"studio floor">>, <<"studio backdrop">>,
          <<"studio panel">>, <<"studio screen">>, <<"studio drape">>, <<"studio curtain">>,
          <<"studio scrim">>, <<"studio frame">>, <<"studio riser">>, <<"studio bench">>
       >>],
      [path |-> <<"Lighting", "Direction", "Direction.txt">>,
       entries |-> <<
          <<"front light">>, <<"side light">>, <<"backlight">>, <<"rim light">>, <<"top light">>,
          <<"bottom light">>, <<"three quarter light">>, <<"split light">>, <<"short light">>,
          <<"broad light">>, <<"butterfly light">>, <<"loop light">>, <<"rembrandt light">>,
          <<"cross light">>, <<"kick light">>, <<"edge light">>, <<"fill light">>,
          <<"key light">>, <<"hair light">>, <<"background light">>, <<"left key light">>,
          <<"right key light">>, <<"left fill light">>, <<"right fill light">>,
          <<"left rim light">>, <<"right rim light">>, <<"top rim light">>,
          <<"bottom rim light">>, <<"overhead light">>, <<"under light">>, <<"left side light">>,
          <<"right side light">>, <<"left backlight">>, <<"right backlight">>, <<"rear light">>,
          <<"front rim light">>, <<"side rim light">>, <<"wrap light">>, <<"soft edge light">>,
          <<"hard edge light">>, <<"front shadow light">>, <<"side shadow light">>,
          <<"back shadow light">>, <<"top shadow light">>, <<"bottom shadow light">>,
          <<"left spill light">>, <<"right spill light">>, <<"top spill light">>,
          <<"bottom spill light">>, <<"ambient light direction">>
       >>],
      [path |-> <<"Lighting", "Source", "Source.txt">>,
       entries |-> <<
          <<"softbox">>, <<"strip box">>, <<"octabox">>, <<"ring light">>, <<"beauty dish">>,
          <<"umbrella light">>, <<"window light">>, <<"skylight">>, <<"practical lamp">>,
          <<"desk lamp">>, <<"floor lamp">>, <<"ceiling light">>, <<"chandelier">>, <<"sconce">>,
          <<"neon sign">>, <<"led panel">>, <<"led tube">>, <<"fresnel light">>, <<"spotlight">>,
          <<"stage light">>, <<"flash">>, <<"strobe">>, <<"continuous light">>,
          <<"tungsten light">>, <<"daylight lamp">>, <<"candlelight">>, <<"fairy lights">>,
          <<"string lights">>, <<"light bar">>, <<"tube light">>, <<"projector light">>,
          <<"gobo light">>, <<"backdrop light">>, <<"hair light">>, <<"edge light">>,
          <<"rim light">>, <<"bounce light">>, <<"reflector light">>, <<"flagged light">>,
          <<"diffused light">>, <<"direct light">>, <<"indirect light">>, <<"hard light">>,
          <<"soft light">>, <<"ambient light">>, <<"moonlight">>, <<"sunlight">>,
          <<"golden hour light">>, <<"blue hour light">>, <<"city light">>
       >>],
      [path |-> <<"Lighting", "Setup", "Setup.txt">>,
       entries |-> <<
          <<"three point lighting">>, <<"two point lighting">>, <<"one light setup">>,
          <<"high key lighting">>, <<"low key lighting">>, <<"butterfly lighting">>,
          <<"rembrandt lighting">>, <<"split lighting">>, <<"loop lighting">>,
          <<"broad lighting">>, <<"short lighting">>, <<"clamshell lighting">>,
          <<"rim lighting setup">>, <<"backlight setup">>, <<"silhouette setup">>,
          <<"ring light setup">>, <<"softbox setup">>, <<"window light setup">>,
          <<"natural light setup">>, <<"studio light setup">>, <<"flash setup">>,
          <<"strobe setup">>, <<"continuous setup">>, <<"mixed light setup">>,
          <<"ambient setup">>, <<"moody setup">>, <<"dramatic setup">>, <<"soft setup">>,
          <<"hard setup">>, <<"contrast setup">>, <<"beauty setup">>, <<"portrait setup">>,
          <<"fashion setup">>, <<"editorial setup">>, <<"glam setup">>, <<"boudoir setup">>,
          <<"product setup">>, <<"background light setup">>, <<"hair light setup">>,
          <<"key light setup">>, <<"fill light setup">>, <<"bounce setup">>,
          <<"reflector setup">>, <<"flag setup">>, <<"grid light setup">>, <<"gel light setup">>,
          <<"shadow play setup">>, <<"edge light setup">>, <<"cross light setup">>,
          <<"split rim setup">>
       >>],
      [path |-> <<"Lighting", "Contrast", "Contrast.txt">>,
       entries |-> <<
          <<"high contrast">>, <<"low contrast">>, <<"soft contrast">>, <<"hard contrast">>,
          <<"medium contrast">>, <<"flat light">>, <<"punchy light">>, <<"moody contrast">>,
          <<"deep shadows">>, <<"soft shadows">>, <<"hard shadows">>, <<"gentle shadows">>,
          <<"crisp shadows">>, <<"shadow detail">>, <<"highlight detail">>,
          <<"balanced contrast">>, <<"dramatic contrast">>, <<"subtle contrast">>,
          <<"glow contrast">>, <<"halo contrast">>, <<"even light">>, <<"uneven light">>,
          <<"shadow heavy">>, <<"highlight heavy">>, <<"midtone heavy">>, <<"dark tones">>,
          <<"light tones">>, <<"rich blacks">>, <<"bright whites">>, <<"smooth gradients">>,
          <<"sharp falloff">>, <<"soft falloff">>, <<"fast falloff">>, <<"slow falloff">>,
          <<"shadow falloff">>, <<"highlight rolloff">>, <<"specular highlights">>,
          <<"diffuse highlights">>, <<"matte highlights">>, <<"glossy highlights">>,
          <<"shadow separation">>, <<"highlight separation">>, <<"shadow depth">>,
          <<"highlight depth">>, <<"contrast edge">>, <<"contrast curve">>,
          <<"contrast balance">>, <<"contrast ratio">>, <<"tone contrast">>, <<"light contrast">>
       >>],
      [path |-> <<"Lighting", "Time", "Time.txt">>,
       entries |-> <<
          <<"golden hour">>, <<"blue hour">>, <<"midday sun">>, <<"morning light">>,
          <<"late afternoon light">>, <<"evening light">>, <<"sunset light">>,
          <<"sunrise light">>, <<"twilight">>, <<"dusk">>, <<"night light">>, <<"noon light">>,
          <<"overcast light">>, <<"cloudy light">>, <<"storm light">>, <<"moonlight">>,
          <<"starlight">>, <<"city night light">>, <<"streetlight glow">>, <<"neon glow">>,
          <<"window light morning">>, <<"window light afternoon">>, <<"window light evening">>,
          <<"soft daylight">>, <<"hard daylight">>, <<"diffused daylight">>, <<"shade light">>,
          <<"backlit sun">>, <<"front lit sun">>, <<"side lit sun">>, <<"late night light">>,
          <<"early morning light">>, <<"pre dawn light">>, <<"post sunset light">>,
          <<"nightfall">>, <<"daybreak">>, <<"midnight">>, <<"late evening">>, <<"late night">>,
          <<"early evening">>, <<"sunlit">>, <<"shade">>, <<"sunbeam">>, <<"sun flare">>,
          <<"sun glow">>, <<"warm light">>, <<"cool light">>, <<"neutral light">>,
          <<"ambient daylight">>, <<"ambient night">>
       >>],
      [path |-> <<"Poses", "Standing", "Standing.txt">>,
       entries |-> <<
          <<"standing pose">>, <<"contrapposto">>, <<"hip shot">>, <<"hands on hips">>,
          <<"arms crossed">>, <<"arms at sides">>, <<"hands clasped">>, <<"hands behind back">>,
          <<"hands in pockets">>, <<"one hand on hip">>, <<"one hand in hair">>,
          <<"both hands in hair">>, <<"arms raised">>, <<"arms overhead">>,
          <<"arms outstretched">>, <<"shoulder touch">>, <<"neck touch">>, <<"chin touch">>,
          <<"hand on thigh">>, <<"hand on waist">>, <<"hand on chest">>, <<"hand on shoulder">>,
          <<"hand on neck">>, <<"hand on cheek">>, <<"hand on jaw">>, <<"hand on head">>,
          <<"hand on back">>, <<"side stance">>, <<"front stance">>, <<"back stance">>,
          <<"three quarter stance">>, <<"profile stance">>, <<"toe point stance">>,
          <<"heel lift stance">>, <<"leg cross stance">>, <<"ankle cross stance">>,
          <<"wide stance">>, <<"narrow stance">>, <<"hip shift">>, <<"weight shift">>,
          <<"leaning stance">>, <<"wall lean">>, <<"door lean">>, <<"rail lean">>,
          <<"window lean">>, <<"chair lean">>, <<"over shoulder pose">>, <<"look back pose">>,
          <<"head tilt pose">>, <<"shoulder roll pose">>
       >>],
      [path |-> <<"Poses", "Sitting", "Sitting.txt">>,
       entries |-> <<
          <<"sitting pose">>, <<"sitting on chair">>, <<"sitting on stool">>,
          <<"sitting on couch">>, <<"sitting on bed">>, <<"crossed legs">>, <<"ankle crossed">>,
          <<"knee crossed">>, <<"legs together">>, <<"legs apart">>, <<"one leg up">>,
          <<"both legs up">>, <<"legs tucked">>, <<"legs folded">>, <<"knees up">>,
          <<"knees apart">>, <<"hands on knees">>, <<"hands on lap">>, <<"hands on thighs">>,
          <<"hands behind back">>, <<"hands on chair">>, <<"hands on couch">>, <<"hand on face">>,
          <<"hand on chin">>, <<"hand on hair">>, <<"arms folded">>, <<"arms resting">>,
          <<"lean forward">>, <<"lean back">>, <<"slouch pose">>, <<"upright pose">>,
          <<"side sit">>, <<"corner sit">>, <<"edge sit">>, <<"perched sit">>, <<"floor sit">>,
          <<"sitting on floor">>, <<"sitting on steps">>, <<"sitting on bench">>,
          <<"sitting on ledge">>, <<"sitting on table">>, <<"sitting on counter">>,
          <<"sitting on railing">>, <<"sitting on armrest">>, <<"sitting on swing">>,
          <<"sitting on stool side">>, <<"sitting on bed edge">>, <<"sitting cross legged">>,
          <<"sitting with legs extended">>, <<"sitting with legs folded">>
       >>],
      [path |-> <<"Poses", "Lying", "Lying.txt">>,
       entries |-> <<
          <<"lying pose">>, <<"lying on back">>, <<"lying on side">>, <<"lying on stomach">>,
          <<"reclining pose">>, <<"reclining on bed">>, <<"reclining on couch">>,
          <<"reclining on floor">>, <<"arms over head">>, <<"arms at sides">>,
          <<"hand on chest">>, <<"hand on stomach">>, <<"hand on thigh">>, <<"hand in hair">>,
          <<"hand on face">>, <<"legs bent">>, <<"legs straight">>, <<"one knee up">>,
          <<"both knees up">>, <<"leg cross">>, <<"ankle cross">>, <<"head tilt">>,
          <<"head turn">>, <<"look up pose">>, <<"look aside pose">>, <<"look down pose">>,
          <<"over shoulder pose">>, <<"back arch">>, <<"hip tilt">>, <<"leg lift">>,
          <<"knee bend">>, <<"foot point">>, <<"toe point">>, <<"arm stretch">>, <<"arm reach">>,
          <<"arm bend">>, <<"chin rest">>, <<"face down pose">>, <<"side curl">>,
          <<"fetal pose">>, <<"sprawl pose">>, <<"cuddle pose">>, <<"pillow hug">>,
          <<"pillow pose">>, <<"blanket pose">>, <<"bedside pose">>, <<"edge of bed pose">>,
          <<"floor lounge">>, <<"sofa lounge">>, <<"chaise lounge">>
       >>],
      [path |-> <<"Poses", "Kneeling", "Kneeling.txt">>,
       entries |-> <<
          <<"kneeling pose">>, <<"one knee down">>, <<"both knees down">>,
          <<"kneeling on floor">>, <<"kneeling on bed">>, <<"kneeling on couch">>,
          <<"kneeling on stool">>, <<"kneeling on chair">>, <<"knees apart">>,
          <<"knees together">>, <<"hands on thighs">>, <<"hands on hips">>, <<"hands on chest">>,
          <<"hands on waist">>, <<"hands on face">>, <<"hands in hair">>, <<"arms raised">>,
          <<"arms forward">>, <<"arms out">>, <<"head tilt">>, <<"look up pose">>,
          <<"look down pose">>, <<"side glance">>, <<"back arch">>, <<"hip tilt">>,
          <<"toe point">>, <<"feet tucked">>, <<"feet crossed">>, <<"hands behind back">>,
          <<"shoulder touch">>, <<"neck touch">>, <<"chin touch">>, <<"hand on neck">>,
          <<"hand on cheek">>, <<"hand on jaw">>, <<"lean forward">>, <<"lean back">>,
          <<"upright kneel">>, <<"slouch kneel">>, <<"perched kneel">>, <<"kneeling on bench">>,
          <<"kneeling on steps">>, <<"kneeling on pillow">>, <<"kneeling on rug">>,
          <<"kneeling on grass">>, <<"kneeling on sand">>, <<"kneeling on platform">>,
          <<"kneeling with legs crossed">>, <<"kneeling with ankles crossed">>,
          <<"kneeling with arms crossed">>
       >>],
      [path |-> <<"Poses", "Movement", "Movement.txt">>,
       entries |-> <<
          <<"walking">>, <<"slow walk">>, <<"stride">>, <<"step">>, <<"turn">>, <<"spin">>,
          <<"twirl">>, <<"pivot">>, <<"hair flip">>, <<"dress twirl">>, <<"coat swirl">>,
          <<"hip sway">>, <<"shoulder roll">>, <<"arm swing">>, <<"hand wave">>,
          <<"hand gesture">>, <<"look back walk">>, <<"over shoulder walk">>, <<"runway walk">>,
          <<"catwalk">>, <<"dance step">>, <<"dance pose">>, <<"stretch">>, <<"reach">>,
          <<"reach up">>, <<"reach out">>, <<"reach back">>, <<"lean step">>, <<"half turn">>,
          <<"full turn">>, <<"step forward">>, <<"step back">>, <<"side step">>, <<"cross step">>,
          <<"kick step">>, <<"leg swing">>, <<"arm raise">>, <<"arm drop">>, <<"hand to hair">>,
          <<"hand to hip">>, <<"hand to waist">>, <<"hand to thigh">>, <<"head turn">>,
          <<"chin lift">>, <<"look up motion">>, <<"look aside motion">>, <<"look down motion">>,
          <<"back arch motion">>, <<"hip twist">>, <<"pose transition">>
       >>],
      [path |-> <<"Expressions", "Smiles", "Smiles.txt">>,
       entries |-> <<
          <<"smile">>, <<"soft smile">>, <<"wide smile">>, <<"subtle smile">>,
          <<"closed mouth smile">>, <<"open mouth smile">>, <<"half smile">>, <<"gentle smile">>,
          <<"bright smile">>, <<"warm smile">>, <<"shy smile">>, <<"confident smile">>,
          <<"playful smile">>, <<"sweet smile">>, <<"sly smile">>, <<"side smile">>, <<"smirk">>,
          <<"grin">>, <<"laugh">>, <<"giggle">>, <<"teeth smile">>, <<"lip smile">>,
          <<"corner smile">>, <<"chin smile">>, <<"smile with eyes">>, <<"smile with dimples">>,
          <<"smile glance">>, <<"smile pose">>, <<"smile focus">>, <<"smile closeup">>,
          <<"smile profile">>, <<"smile front view">>, <<"smile side view">>, <<"smile tilt">>,
          <<"smile lift">>, <<"smile relax">>, <<"smile beam">>, <<"smile sparkle">>,
          <<"smile glow">>, <<"smile curve">>, <<"smile line">>, <<"smile contour">>,
          <<"smile shadow">>, <<"smile highlight">>, <<"smile detail">>, <<"smile expression">>,
          <<"smile mood">>, <<"smile energy">>, <<"smile moment">>, <<"smile look">>
       >>],
      [path |-> <<"Expressions", "Gaze", "Gaze.txt">>,
       entries |-> <<
          <<"direct gaze">>, <<"side glance">>, <<"downward gaze">>, <<"upward gaze">>,
          <<"over shoulder gaze">>, <<"far gaze">>, <<"soft gaze">>, <<"intense gaze">>,
          <<"steady gaze">>, <<"focused gaze">>, <<"dreamy gaze">>, <<"distant gaze">>,
          <<"bold gaze">>, <<"calm gaze">>, <<"curious gaze">>, <<"playful gaze">>,
          <<"serious gaze">>, <<"neutral gaze">>, <<"flirty gaze">>, <<"inviting gaze">>,
          <<"left gaze">>, <<"right gaze">>, <<"front gaze">>, <<"back gaze">>,
          <<"profile gaze">>, <<"three quarter gaze">>, <<"gaze to camera">>, <<"gaze away">>,
          <<"gaze down">>, <<"gaze up">>, <<"gaze to side">>, <<"gaze to light">>,
          <<"gaze to window">>, <<"gaze to mirror">>, <<"gaze to floor">>, <<"gaze to ceiling">>,
          <<"gaze to horizon">>, <<"gaze to sky">>, <<"gaze to ground">>, <<"gaze to corner">>,
          <<"gaze under lashes">>, <<"gaze over lashes">>, <<"gaze through hair">>,
          <<"gaze behind hair">>, <<"gaze across shoulder">>, <<"gaze across body">>,
          <<"gaze across room">>, <<"gaze to reflection">>, <<"gaze to lens">>,
          <<"gaze to viewer">>
       >>],
      [path |-> <<"Expressions", "Eyes", "Eyes.txt">>,
       entries |-> <<
          <<"half lidded eyes">>, <<"wide eyes">>, <<"soft eyes">>, <<"sharp eyes">>,
          <<"bright eyes">>, <<"calm eyes">>, <<"intense eyes">>, <<"sleepy eyes">>,
          <<"alert eyes">>, <<"relaxed eyes">>, <<"squint">>, <<"eye squint">>, <<"eye smile">>,
          <<"eye focus">>, <<"eye glance">>, <<"eye roll">>, <<"eye blink">>, <<"eye flutter">>,
          <<"eye sparkle">>, <<"eye shine">>, <<"eye highlight">>, <<"eye shadow">>,
          <<"eye contour">>, <<"eye shape">>, <<"eye line">>, <<"eye tilt">>, <<"eye lift">>,
          <<"eye drop">>, <<"eye center">>, <<"eye corners">>, <<"inner corner">>,
          <<"outer corner">>, <<"upper lid">>, <<"lower lid">>, <<"upper lash">>,
          <<"lower lash">>, <<"thick lashes">>, <<"thin lashes">>, <<"long lashes">>,
          <<"short lashes">>, <<"curled lashes">>, <<"straight lashes">>, <<"mascara lashes">>,
          <<"natural lashes">>, <<"lash lift">>, <<"lash fan">>, <<"lash line">>,
          <<"brow raise">>, <<"brow furrow">>, <<"brow relax">>
       >>],
      [path |-> <<"Expressions", "Mouth", "Mouth.txt">>,
       entries |-> <<
          <<"pout">>, <<"lip pout">>, <<"lip bite">>, <<"lip press">>, <<"parted lips">>,
          <<"open mouth">>, <<"closed mouth">>, <<"soft mouth">>, <<"neutral mouth">>,
          <<"smile mouth">>, <<"corner lift">>, <<"corner drop">>, <<"mouth curve">>,
          <<"mouth line">>, <<"mouth contour">>, <<"mouth profile">>, <<"mouth silhouette">>,
          <<"mouth detail">>, <<"mouth focus">>, <<"lip line">>, <<"upper lip">>, <<"lower lip">>,
          <<"lip edge">>, <<"lip center">>, <<"lip highlight">>, <<"lip shadow">>,
          <<"lip texture">>, <<"lip crease">>, <<"lip shape">>, <<"lip volume">>,
          <<"tongue tip">>, <<"teeth show">>, <<"teeth peek">>, <<"teeth smile">>,
          <<"breath pose">>, <<"exhale pose">>, <<"inhale pose">>, <<"mouth open pose">>,
          <<"mouth closed pose">>, <<"mouth half open">>, <<"soft bite">>, <<"lip touch">>,
          <<"lip tap">>, <<"lip lick">>, <<"lip slip">>, <<"lip fold">>, <<"lip rest">>,
          <<"mouth relaxed">>, <<"mouth tense">>, <<"mouth smile">>
       >>],
      [path |-> <<"Expressions", "Mood", "Mood.txt">>,
       entries |-> <<
          <<"confident mood">>, <<"playful mood">>, <<"flirty mood">>, <<"serene mood">>,
          <<"calm mood">>, <<"bold mood">>, <<"soft mood">>, <<"gentle mood">>, <<"sultry mood">>,
          <<"romantic mood">>, <<"dreamy mood">>, <<"mysterious mood">>, <<"cool mood">>,
          <<"warm mood">>, <<"cheerful mood">>, <<"joyful mood">>, <<"relaxed mood">>,
          <<"focused mood">>, <<"intense mood">>, <<"bright mood">>, <<"moody mood">>,
          <<"quiet mood">>, <<"shy mood">>, <<"sweet mood">>, <<"sassy mood">>, <<"fiery mood">>,
          <<"elegant mood">>, <<"poised mood">>, <<"graceful mood">>, <<"strong mood">>,
          <<"tender mood">>, <<"casual mood">>, <<"friendly mood">>, <<"inviting mood">>,
          <<"chill mood">>, <<"luxury mood">>, <<"glam mood">>, <<"fashion mood">>,
          <<"editorial mood">>, <<"art mood">>, <<"sensual mood">>, <<"intimate mood">>,
          <<"soft glam mood">>, <<"high glam mood">>, <<"low key mood">>, <<"high key mood">>,
          <<"noir mood">>, <<"sunlit mood">>, <<"night mood">>, <<"studio mood">>
       >>],
      [path |-> <<"Accessories", "Jewelry", "Jewelry.txt">>,
       entries |-> <<
          <<"necklace">>, <<"choker">>, <<"pendant">>, <<"locket">>, <<"chain">>,
          <<"rope chain">>, <<"beaded necklace">>, <<"pearl necklace">>, <<"collar necklace">>,
          <<"bib necklace">>, <<"earrings">>, <<"stud earrings">>, <<"hoop earrings">>,
          <<"drop earrings">>, <<"dangle earrings">>, <<"ear cuffs">>, <<"ear climbers">>,
          <<"ear chain">>, <<"bracelet">>, <<"bangle">>, <<"cuff bracelet">>,
          <<"charm bracelet">>, <<"anklet">>, <<"ring">>, <<"stacked rings">>, <<"signet ring">>,
          <<"cocktail ring">>, <<"toe ring">>, <<"nose ring">>, <<"septum ring">>,
          <<"body chain">>, <<"waist chain">>, <<"belly chain">>, <<"arm cuff">>, <<"arm band">>,
          <<"hand chain">>, <<"hair pin">>, <<"hair clip">>, <<"barrette">>, <<"tiara">>,
          <<"crown">>, <<"brooch">>, <<"pin">>, <<"badge">>, <<"medallion">>, <<"gemstone">>,
          <<"diamond">>, <<"ruby">>, <<"sapphire">>, <<"emerald">>
       >>],
      [path |-> <<"Accessories", "Eyewear", "Eyewear.txt">>,
       entries |-> <<
          <<"sunglasses">>, <<"aviator sunglasses">>, <<"wayfarer sunglasses">>,
          <<"round sunglasses">>, <<"cat eye sunglasses">>, <<"oversized sunglasses">>,
          <<"tiny sunglasses">>, <<"square sunglasses">>, <<"rectangular sunglasses">>,
          <<"shield sunglasses">>, <<"sports sunglasses">>, <<"wraparound sunglasses">>,
          <<"mirrored sunglasses">>, <<"gradient sunglasses">>, <<"tinted sunglasses">>,
          <<"polarized sunglasses">>, <<"reading glasses">>, <<"eyeglasses">>,
          <<"round glasses">>, <<"square glasses">>, <<"rectangular glasses">>,
          <<"cat eye glasses">>, <<"browline glasses">>, <<"rimless glasses">>,
          <<"half rim glasses">>, <<"wire frame glasses">>, <<"acetate frames">>,
          <<"metal frames">>, <<"clear frames">>, <<"thick frames">>, <<"thin frames">>,
          <<"retro glasses">>, <<"vintage glasses">>, <<"designer glasses">>,
          <<"fashion glasses">>, <<"blue light glasses">>, <<"colored lens glasses">>,
          <<"clip on sunglasses">>, <<"monocle">>, <<"lorgnette">>, <<"goggles">>,
          <<"swim goggles">>, <<"ski goggles">>, <<"visor">>, <<"eye mask">>, <<"sleep mask">>,
          <<"glasses chain">>, <<"glasses strap">>, <<"glasses holder">>, <<"glasses case">>
       >>],
      [path |-> <<"Accessories", "Gloves", "Gloves.txt">>,
       entries |-> <<
          <<"gloves">>, <<"fingerless gloves">>, <<"opera gloves">>, <<"wrist gloves">>,
          <<"arm length gloves">>, <<"elbow gloves">>, <<"lace gloves">>, <<"leather gloves">>,
          <<"satin gloves">>, <<"mesh gloves">>, <<"sheer gloves">>, <<"silk gloves">>,
          <<"velvet gloves">>, <<"latex gloves">>, <<"nitrile gloves">>, <<"cotton gloves">>,
          <<"knit gloves">>, <<"winter gloves">>, <<"driving gloves">>, <<"cycling gloves">>,
          <<"fitness gloves">>, <<"boxing gloves">>, <<"work gloves">>, <<"garden gloves">>,
          <<"fashion gloves">>, <<"bridal gloves">>, <<"evening gloves">>, <<"short gloves">>,
          <<"long gloves">>, <<"ruffle gloves">>, <<"cutout gloves">>, <<"stud gloves">>,
          <<"fringe gloves">>, <<"glovelets">>, <<"mitts">>, <<"mitten gloves">>,
          <<"sheer arm sleeves">>, <<"arm warmers">>, <<"hand warmers">>, <<"glove straps">>,
          <<"glove cuffs">>, <<"glove trim">>, <<"glove buttons">>, <<"glove lace">>,
          <<"glove mesh">>, <<"glove suede">>, <<"glove stretch">>, <<"glove wrap">>,
          <<"glove buckle">>, <<"glove ribbon">>
       >>],
      [path |-> <<"Accessories", "Hats", "Hats.txt">>,
       entries |-> <<
          <<"hat">>, <<"cap">>, <<"baseball cap">>, <<"snapback cap">>, <<"trucker cap">>,
          <<"beanie">>, <<"beret">>, <<"fedora">>, <<"trilby">>, <<"panama hat">>,
          <<"boater hat">>, <<"bucket hat">>, <<"cloche hat">>, <<"pillbox hat">>, <<"top hat">>,
          <<"bowler hat">>, <<"newsboy cap">>, <<"flat cap">>, <<"visor">>, <<"sun hat">>,
          <<"wide brim hat">>, <<"cowboy hat">>, <<"cowgirl hat">>, <<"straw hat">>,
          <<"felt hat">>, <<"wool hat">>, <<"knit hat">>, <<"fisherman hat">>, <<"sailor cap">>,
          <<"military cap">>, <<"beret cap">>, <<"headscarf">>, <<"bandana">>, <<"hair scarf">>,
          <<"turban">>, <<"fascinator">>, <<"headpiece">>, <<"veil">>, <<"hood">>, <<"cowl">>,
          <<"earmuffs">>, <<"hairband">>, <<"headband">>, <<"tiara">>, <<"crown">>,
          <<"hair bow">>, <<"hair ribbon">>, <<"hair clip">>, <<"hair pin">>, <<"hair comb">>
       >>],
      [path |-> <<"Accessories", "Bags", "Bags.txt">>,
       entries |-> <<
          <<"handbag">>, <<"shoulder bag">>, <<"crossbody bag">>, <<"tote bag">>, <<"clutch">>,
          <<"wristlet">>, <<"satchel">>, <<"hobo bag">>, <<"bucket bag">>, <<"saddle bag">>,
          <<"camera bag">>, <<"duffel bag">>, <<"backpack">>, <<"mini backpack">>, <<"belt bag">>,
          <<"fanny pack">>, <<"waist bag">>, <<"evening bag">>, <<"party bag">>, <<"box bag">>,
          <<"quilting bag">>, <<"chain bag">>, <<"top handle bag">>, <<"shopper bag">>,
          <<"beach bag">>, <<"weekender bag">>, <<"travel bag">>, <<"garment bag">>,
          <<"laptop bag">>, <<"messenger bag">>, <<"sling bag">>, <<"drawstring bag">>,
          <<"pouch">>, <<"coin purse">>, <<"wallet">>, <<"card holder">>, <<"makeup bag">>,
          <<"cosmetic bag">>, <<"vanity bag">>, <<"beauty case">>, <<"shopping bag">>,
          <<"paper bag">>, <<"mesh bag">>, <<"net bag">>, <<"straw bag">>, <<"basket bag">>,
          <<"leather bag">>, <<"suede bag">>, <<"canvas bag">>, <<"nylon bag">>
       >>],
      [path |-> <<"BodyType", "Silhouette", "Silhouette.txt">>,
       entries |-> <<
          <<"hourglass figure">>, <<"pear shape">>, <<"apple shape">>, <<"rectangle shape">>,
          <<"inverted triangle">>, <<"curvy figure">>, <<"slim figure">>, <<"athletic build">>,
          <<"petite build">>, <<"tall build">>, <<"lean build">>, <<"toned build">>,
          <<"voluptuous figure">>, <<"full figure">>, <<"narrow waist">>, <<"wide hips">>,
          <<"broad shoulders">>, <<"narrow shoulders">>, <<"long torso">>, <<"short torso">>,
          <<"long legs">>, <<"short legs">>, <<"balanced proportions">>, <<"soft curves">>,
          <<"defined curves">>, <<"gentle curves">>, <<"straight figure">>, <<"rounded figure">>,
          <<"full hips">>, <<"soft waist">>, <<"defined waist">>, <<"narrow hips">>,
          <<"wide waist">>, <<"curvy hips">>, <<"slender frame">>, <<"medium frame">>,
          <<"full frame">>, <<"small frame">>, <<"model figure">>, <<"glam figure">>,
          <<"classic figure">>, <<"statuesque figure">>, <<"lithe figure">>, <<"svelte figure">>,
          <<"supple figure">>, <<"feminine figure">>, <<"adult figure">>, <<"figure silhouette">>,
          <<"body silhouette">>, <<"waist to hip ratio">>
       >>],
      [path |-> <<"BodyType", "Proportions", "Proportions.txt">>,
       entries |-> <<
          <<"long legs">>, <<"short legs">>, <<"long torso">>, <<"short torso">>, <<"long arms">>,
          <<"short arms">>, <<"wide hips">>, <<"narrow hips">>, <<"broad shoulders">>,
          <<"narrow shoulders">>, <<"small waist">>, <<"defined waist">>, <<"soft waist">>,
          <<"long neck">>, <<"short neck">>, <<"wide waist">>, <<"high hips">>, <<"low hips">>,
          <<"high waist">>, <<"low waist">>, <<"long waist">>, <<"short waist">>,
          <<"tall stature">>, <<"short stature">>, <<"balanced frame">>, <<"even proportions">>,
          <<"shoulder to hip balance">>, <<"hip to waist balance">>, <<"leg to torso balance">>,
          <<"arm to torso balance">>, <<"bust to waist balance">>, <<"waist to hip balance">>,
          <<"upper body balance">>, <<"lower body balance">>, <<"top heavy">>, <<"bottom heavy">>,
          <<"even build">>, <<"slender build">>, <<"curvy build">>, <<"lean build">>,
          <<"full bust">>, <<"small bust">>, <<"full hips">>, <<"small hips">>, <<"long stride">>,
          <<"short stride">>, <<"long reach">>, <<"short reach">>, <<"wide stance">>,
          <<"narrow stance">>
       >>],
      [path |-> <<"BodyType", "Frame", "Frame.txt">>,
       entries |-> <<
          <<"petite frame">>, <<"small frame">>, <<"medium frame">>, <<"large frame">>,
          <<"slender frame">>, <<"narrow frame">>, <<"wide frame">>, <<"athletic frame">>,
          <<"lithe frame">>, <<"delicate frame">>, <<"sturdy frame">>, <<"soft frame">>,
          <<"lean frame">>, <<"toned frame">>, <<"compact frame">>, <<"tall frame">>,
          <<"short frame">>, <<"balanced frame">>, <<"light frame">>, <<"strong frame">>,
          <<"graceful frame">>, <<"poised frame">>, <<"curvy frame">>, <<"model frame">>,
          <<"classic frame">>, <<"feminine frame">>, <<"adult frame">>, <<"body frame">>,
          <<"figure frame">>, <<"waist frame">>, <<"hip frame">>, <<"shoulder frame">>,
          <<"torso frame">>, <<"leg frame">>, <<"arm frame">>, <<"upper frame">>,
          <<"lower frame">>, <<"full frame">>, <<"slim frame">>, <<"svelte frame">>,
          <<"shapely frame">>, <<"defined frame">>, <<"smooth frame">>, <<"soft frame line">>,
          <<"clean frame line">>, <<"gentle frame line">>, <<"sharp frame line">>,
          <<"rounded frame line">>, <<"straight frame line">>, <<"silhouette frame">>
       >>],
      [path |-> <<"BodyType", "Curves", "Curves.txt">>,
       entries |-> <<
          <<"curves">>, <<"soft curves">>, <<"defined curves">>, <<"gentle curves">>,
          <<"full curves">>, <<"rounded curves">>, <<"smooth curves">>, <<"waist curve">>,
          <<"hip curve">>, <<"bust curve">>, <<"leg curve">>, <<"arm curve">>, <<"back curve">>,
          <<"neck curve">>, <<"shoulder curve">>, <<"rib curve">>, <<"torso curve">>,
          <<"body curve">>, <<"figure curve">>, <<"silhouette curve">>, <<"curve line">>,
          <<"curve contour">>, <<"curve profile">>, <<"curve silhouette">>, <<"curve shape">>,
          <<"curve flow">>, <<"curve balance">>, <<"curve ratio">>, <<"curve symmetry">>,
          <<"curve depth">>, <<"curve highlight">>, <<"curve shadow">>, <<"curve detail">>,
          <<"curve focus">>, <<"curve view">>, <<"waist to hip curve">>,
          <<"bust to waist curve">>, <<"hip to thigh curve">>, <<"back arch curve">>,
          <<"hip sway curve">>, <<"glute curve">>, <<"thigh curve">>, <<"calf curve">>,
          <<"ankle curve">>, <<"wrist curve">>, <<"neckline curve">>, <<"jaw curve">>,
          <<"cheek curve">>, <<"chest curve">>, <<"stomach curve">>
       >>],
      [path |-> <<"BodyType", "Height", "Height.txt">>,
       entries |-> <<
          <<"petite height">>, <<"short height">>, <<"average height">>, <<"tall height">>,
          <<"statuesque height">>, <<"model height">>, <<"long leg height">>,
          <<"compact height">>, <<"medium height">>, <<"very tall">>, <<"very short">>,
          <<"tall stature">>, <<"short stature">>, <<"medium stature">>, <<"high stature">>,
          <<"low stature">>, <<"slender height">>, <<"curvy height">>, <<"athletic height">>,
          <<"balanced height">>, <<"long line height">>, <<"short line height">>,
          <<"extended height">>, <<"compressed height">>, <<"upright height">>,
          <<"poised height">>, <<"graceful height">>, <<"elegant height">>, <<"classic height">>,
          <<"modern height">>, <<"towering height">>, <<"mini height">>, <<"mid height">>,
          <<"full height">>, <<"half height">>, <<"three quarter height">>,
          <<"long form height">>, <<"short form height">>, <<"vertical height">>,
          <<"vertical line">>, <<"height emphasis">>, <<"height focus">>, <<"height detail">>,
          <<"height proportion">>, <<"height balance">>, <<"height profile">>,
          <<"height silhouette">>, <<"height view">>, <<"height line">>, <<"height contour">>
       >>]
    >>

EnvValues == {<<>>, <<Sep, "AppData", "Local">>}

StartDate == [year |-> 2026, month |-> 3, day |-> 9]

OldContent == <<"stale line 1", NL, "stale line 2", NL>>

Orphan(r) == r \o <<"Orphan.txt">>
Sibling(k) == DirName(k) \o <<"Sibling.txt">>

(* the directories above the root, and the top directory *)
AboveRoot(r) == [q \in Prefixes(DirName(r)) \cup {<<Sep>>} |-> Dir]

(* an existing root directory holding one file no catalog path names *)
FreshRoot(r) == Put(Put(AboveRoot(r), r, Dir), Orphan(r), File(OldContent))

(* the library of an earlier version: every directory, a stale file at every
   catalog path and a stale file beside it *)
Populated(r) ==
    LET dirs == UNION {Prefixes(PathJoin(r, DirName(Keys[k]))) : k \in 1..Len(Keys)}
        files == {PathJoin(r, Keys[k]) : k \in 1..Len(Keys)}
                 \cup {PathJoin(r, Sibling(Keys[k])) : k \in 1..Len(Keys)}
        base == MkDirs(FreshRoot(r), dirs)
    IN  [q \in (DOMAIN base) \cup files |->
            IF q \in files THEN File(OldContent) ELSE base[q]]

Scenarios == {"noroot", "rootfile", "fresh", "populated", "blocked", "targetdir"}

InitialFs(r, sc) ==
    CASE sc = "noroot"    -> AboveRoot(r)
      [] sc = "rootfile"  -> Put(AboveRoot(r), r, File(OldContent))
      [] sc = "fresh"     -> FreshRoot(r)
      [] sc = "populated" -> Populated(r)
      [] sc = "blocked"   -> Put(FreshRoot(r), PathJoin(r, <<Keys[1][1]>>), File(OldContent))
      [] sc = "targetdir" -> Put(Populated(r), PathJoin(r, Keys[1]), Dir)

Init ==
    /\ env \in EnvValues
    /\ clock = StartDate
    /\ data \in Catalogs
    /\ \E sc \in Scenarios : fs = InitialFs(RootOf(env), sc)
    /\ pc = "rootcheck"
    /\ root = <<>>
    /\ date = ""
    /\ header = <<>>
    /\ vi = 1
    /\ ei = 1
    /\ f = <<>>
    /\ exitcode = -1
    /\ stderr = <<>>
    /\ stdout = <<>>
    /\ run = 1
    /\ fs0 = fs
    /\ prev = <<>>
    /\ repeats = [k \in 1..Len(data) |-> Repeats(data[k].entries)]
    /\ log = <<>>

-----------------------------------------------------------------------------
(* The script, one action per statement or loop iteration *)

(* the run's steps with one more *)
Logged(op, path, ok) == log' = Append(log, [op |-> op, path |-> path, ok |-> ok])

(* mutant: the process ends with status 0 *)
AbortStatusZero(msg) ==
    /\ stderr' = msg
    /\ exitcode' = 0
    /\ pc' = "done"

(* raise SystemExit(msg), or an uncaught exception: the process ends, status 1 *)
Abort(msg) ==
    /\ stderr' = msg
    /\ exitcode' = 1
    /\ pc' = "done"

(* mutant: the root is not looked at before the catalog is *)
RootFoundUnchecked(fsys, r) == TRUE

(* mutant: os.path.exists(root) in place of os.path.isdir(root) *)
RootExists(fsys, r) == Exists(fsys, r)

(* os.path.isdir(root), the condition of the root check *)
RootFound(fsys, r) == IsDir(fsys, r)

(* root = os.path.join(...); if not os.path.isdir(root): raise SystemExit(...) *)
RootCheck ==
    /\ pc = "rootcheck"
    /\ root' = RootOf(env)
    /\ IF RootFound(fs, root')
       THEN /\ pc' = "header"
            /\ UNCHANGED <<exitcode, stderr>>
       ELSE Abort(<<"Library not found: ", PathStr(root')>>)
    /\ Logged("rootcheck", root', pc' = "header")
    /\ UNCHANGED <<env, clock, data, fs, date, header, vi, ei, f, stdout, run, fs0, prev, repeats>>

(* date = datetime.now().strftime("%Y-%m-%d"); header = f"..." *)
MakeHeader ==
    /\ pc = "header"
    /\ date' = Strftime(clock)
    /\ header' = HeaderOf(date')
    /\ pc' = "validate"
    /\ UNCHANGED <<env, clock, data, fs, root, vi, ei, f, exitcode, stderr, stdout,
                   run, fs0, prev, repeats, log>>

(* mutant: a short list passes the count rule when it repeats a tag *)
TooFewUnlessDup(entries) ==
    /\ Len(entries) < MinEntries
    /\ Len(entries) = Cardinality(SetOf(entries))

(* mutant: len(entries) <= 50 *)
TooFewInclusive(entries) == Len(entries) <= MinEntries

(* len(entries) < 50 *)
TooFew(entries) == Len(entries) < MinEntries

(* mutant: a tag of a category checked earlier counts as a duplicate too *)
HasDuplicatesAcross(entries) ==
    \/ Len(entries) # Cardinality(SetOf(entries))
    \/ \E k \in 1..(vi - 1) : SetOf(data[k].entries) \cap SetOf(entries) # {}

(* mutant: the list compared with itself, not with its set *)
HasDuplicatesNoSet(entries) == Len(entries) # Len(entries)

(* len(entries) != len(set(entries)) *)
HasDuplicates(entries) == Len(entries) # Cardinality(SetOf(entries))

(* mutant: the message carries the number of distinct tags *)
CountMessageDistinct(path, entries) ==
    <<PathStr(path), " has ", ToString(Cardinality(SetOf(entries))), " entries">>

(* f"{path} has {len(entries)} entries" *)
CountMessage(path, entries) ==
    <<PathStr(path), " has ", ToString(Len(entries)), " entries">>

(* mutant: the message names the category's directory *)
DuplicateMessageDir(path) == <<PathStr(DirName(path)), " has duplicate entries">>

(* f"{path} has duplicate entries" *)
DuplicateMessage(path) == <<PathStr(path), " has duplicate entries">>

(* mutant: the entries visited last to first *)
ItemsReversed == [i \in 1..Len(data) |-> data[Len(data) + 1 - i]]

(* data.items(): the entries in insertion order *)
Items == data

(* one iteration of: for path, entries in data.items() -- the two checks *)
(* mutant: the loop takes the last tag off the list it has just checked *)
ValidateEntryPops ==
    /\ pc = "validate"
    /\ vi <= Len(data)
    /\ LET path == Items[vi].path
           entries == Items[vi].entries
       IN  /\ IF TooFew(entries)
              THEN /\ Abort(CountMessage(path, entries))
                   /\ UNCHANGED <<vi, data>>
              ELSE IF HasDuplicates(entries)
              THEN /\ Abort(DuplicateMessage(path))
                   /\ UNCHANGED <<vi, data>>
              ELSE /\ vi' = vi + 1
                   /\ data' = [data EXCEPT ![vi].entries = SubSeq(@, 1, Len(@) - 1)]
                   /\ UNCHANGED <<pc, exitcode, stderr>>
           /\ Logged("validate", path, pc' = "validate")
    /\ UNCHANGED <<env, clock, fs, root, date, header, ei, f, stdout, run, fs0, prev, repeats>>

ValidateEntry ==
    /\ pc = "validate"
    /\ vi <= Len(data)
    /\ LET path == Items[vi].path
           entries == Items[vi].entries
       IN  /\ IF TooFew(entries)
              THEN /\ Abort(CountMessage(path, entries))
                   /\ UNCHANGED vi
              ELSE IF HasDuplicates(entries)
              THEN /\ Abort(DuplicateMessage(path))
                   /\ UNCHANGED vi
              ELSE /\ vi' = vi + 1
                   /\ UNCHANGED <<pc, exitcode, stderr>>
           /\ Logged("validate", path, pc' = "validate")
    /\ UNCHANGED <<env, clock, data, fs, root, date, header, ei, f, stdout, run, fs0, prev, repeats>>

(* mutant: the script hangs at the end of the validation loop *)
ValidateEndSpin ==
    /\ pc = "validate"
    /\ vi > Len(data)
    /\ UNCHANGED vars

(* mutant: the emission loop starts at the second category *)
ValidateEndSkipFirst ==
    /\ pc = "validate"
    /\ vi > Len(data)
    /\ pc' = "emit"
    /\ ei' = 2
    /\ UNCHANGED <<env, clock, data, fs, root, date, header, vi, f, exitcode, stderr,
                   stdout, run, fs0, prev, repeats, log>>

(* mutant: the emission loop starts once the first category has passed *)
ValidateEndEarly ==
    /\ pc = "validate"
    /\ vi > 1
    /\ pc' = "emit"
    /\ ei' = 1
    /\ UNCHANGED <<env, clock, data, fs, root, date, header, vi, f, exitcode, stderr,
                   stdout, run, fs0, prev, repeats, log>>

(* the validation loop is exhausted: the emission loop starts *)
ValidateEnd ==
    /\ pc = "validate"
    /\ vi > Len(data)
    /\ pc' = "emit"
    /\ ei' = 1
    /\ UNCHANGED <<env, clock, data, fs, root, date, header, vi, f, exitcode, stderr,
                   stdout, run, fs0, prev, repeats, log>>

(* mutant: the key alone, not joined with the root *)
AbsPathNoRoot(i) == Items[i].path

(* mutant: the file name alone joined with the root *)
AbsPathFlat(i) == PathJoin(root, <<Items[i].path[Len(Items[i].path)]>>)

(* abs_path = os.path.join(root, rel_path) *)
AbsPath(i) == PathJoin(root, Items[i].path)

(* mutant: no directory is created *)
MakeDirsSkipped(fsys, d, k) == fsys

(* mutant: the directory is emptied before it is created again *)
MakeDirsClean(fsys, d, k) ==
    LET kept == {q \in DOMAIN fsys :
                    ~(Len(q) > Len(Resolve(d))
                      /\ SubSeq(q, 1, Len(Resolve(d))) = Resolve(d))}
    IN  MkDirs([q \in kept |-> fsys[q]], {Resolve(SubSeq(d, 1, i)) : i \in 1..k})

(* os.makedirs(d, exist_ok=True) that got as far as the first k components of d:
   the absent ones among them now exist *)
MakeDirsUpTo(fsys, d, k) == MkDirs(fsys, {Resolve(SubSeq(d, 1, i)) : i \in 1..k})

(* abs_path = ...; os.makedirs(os.path.dirname(abs_path), exist_ok=True).
   It stops with OSError at a component that exists and is no directory, or
   at an absent one the system refuses to create. *)
(* mutant: os.makedirs without exist_ok: an existing leaf directory is an error *)
MakeDirsNotExistOk ==
    /\ pc = "emit"
    /\ ei <= Len(data)
    /\ LET d == DirName(AbsPath(ei))
       IN  \E k \in 0..Len(d) :
             /\ \A i \in 1..k : ~IsFile(fs, Resolve(SubSeq(d, 1, i)))
             /\ IF k = Len(d) /\ ~IsDir(fs, Resolve(d))
                THEN /\ fs' = MakeDirsUpTo(fs, d, k)
                     /\ pc' = "open"
                     /\ UNCHANGED <<exitcode, stderr>>
                ELSE /\ k < Len(d) => ~IsDir(fs, Resolve(SubSeq(d, 1, k + 1)))
                     /\ fs' = MakeDirsUpTo(fs, d, k)
                     /\ Abort(<<"OSError: ", PathStr(d)>>)
             /\ Logged("makedirs", Items[ei].path, pc' = "open")
    /\ UNCHANGED <<env, clock, data, root, date, header, vi, ei, f, stdout, run, fs0, prev, repeats>>

MakeDirs ==
    /\ pc = "emit"
    /\ ei <= Len(data)
    /\ LET d == DirName(AbsPath(ei))
       IN  \E k \in 0..Len(d) :
             /\ \A i \in 1..k : ~IsFile(fs, Resolve(SubSeq(d, 1, i)))
             /\ fs' = MakeDirsUpTo(fs, d, k)
             /\ IF k = Len(d)
                THEN /\ pc' = "open"
                     /\ UNCHANGED <<exitcode, stderr>>
                ELSE /\ ~IsDir(fs, Resolve(SubSeq(d, 1, k + 1)))
                     /\ Abort(<<"OSError: ", PathStr(SubSeq(d, 1, k + 1))>>)
             /\ Logged("makedirs", Items[ei].path, k = Len(d))
    /\ UNCHANGED <<env, clock, data, root, date, header, vi, ei, f, stdout, run, fs0, prev, repeats>>

(* mutant: open(p, "a"), which keeps an existing file's text *)
OpenAppend(fsys, p) == IF IsFile(fsys, p) THEN fsys ELSE Put(fsys, p, File(<<>>))

(* the file open(p, "w") leaves at p: created, or truncated to nothing *)
OpenW(fsys, p) == Put(fsys, p, File(<<>>))

(* with open(abs_path, "w", encoding="utf-8") as f: -- the open.
   It fails when abs_path is a directory, or when the system refuses. *)
OpenFile ==
    /\ pc = "open"
    /\ \E ok \in BOOLEAN :
         /\ IF ok /\ ~IsDir(fs, Resolve(AbsPath(ei)))
            THEN /\ fs' = OpenW(fs, Resolve(AbsPath(ei)))
                 /\ f' = <<[path |-> Resolve(AbsPath(ei)),
                            pos |-> Len(fs'[Resolve(AbsPath(ei))].content)]>>
                 /\ pc' = "write"
                 /\ UNCHANGED <<exitcode, stderr>>
            ELSE /\ Abort(<<"OSError: ", PathStr(AbsPath(ei))>>)
                 /\ UNCHANGED <<fs, f>>
         /\ Logged("open", Items[ei].path, pc' = "write")
    /\ UNCHANGED <<env, clock, data, root, date, header, vi, ei, stdout, run, fs0, prev, repeats>>

(* the text of a file after `text` is written at position pos *)
WriteAt(old, pos, text) ==
    SubSeq(old, 1, pos) \o text \o SubSeq(old, pos + Len(text) + 1, Len(old))

(* how much of a text a failing write may have put on disk *)
PartialLengths(text) == {0, Len(text) \div 2}

(* mutant: a failing write is swallowed and the loop goes on *)
WriteFileKeepGoing ==
    /\ pc = "write"
    /\ LET h == f[1]
           content == Content(header, Items[ei].entries)
       IN  \E n \in PartialLengths(content) \cup {Len(content)} :
              /\ fs' = Put(fs, h.path,
                           File(WriteAt(fs[h.path].content, h.pos, SubSeq(content, 1, n))))
              /\ Logged("write", Items[ei].path, n = Len(content))
    /\ ei' = ei + 1
    /\ pc' = "emit"
    /\ f' = <<>>
    /\ UNCHANGED <<env, clock, data, root, date, header, vi, exitcode, stderr, stdout,
                   run, fs0, prev, repeats>>

(* content = ...; f.write(content), and the close that ends the with block.
   A failing write leaves part of the text and raises OSError. *)
WriteFile ==
    /\ pc = "write"
    /\ LET h == f[1]
           content == Content(header, Items[ei].entries)
       IN  \/ /\ fs' = Put(fs, h.path, File(WriteAt(fs[h.path].content, h.pos, content)))
              /\ ei' = ei + 1
              /\ pc' = "emit"
              /\ UNCHANGED <<exitcode, stderr>>
              /\ Logged("write", Items[ei].path, TRUE)
           \/ \E n \in PartialLengths(content) :
                /\ fs' = Put(fs, h.path,
                             File(WriteAt(fs[h.path].content, h.pos, SubSeq(content, 1, n))))
                /\ Abort(<<"OSError: ", PathStr(h.path)>>)
                /\ UNCHANGED ei
                /\ Logged("write", Items[ei].path, FALSE)
    /\ f' = <<>>
    /\ UNCHANGED <<env, clock, data, root, date, header, vi, stdout, run, fs0, prev, repeats>>

(* the emission loop is exhausted: print(f"Wrote {len(data)} files under {root}") *)
PrintSummary ==
    /\ pc = "emit"
    /\ ei > Len(data)
    /\ stdout' = <<"Wrote ", ToString(Len(data)), " files under ", PathStr(root)>>
    /\ exitcode' = 0
    /\ pc' = "done"
    /\ UNCHANGED <<env, clock, data, fs, root, date, header, vi, ei, f, stderr, run,
                   fs0, prev, repeats, log>>

-----------------------------------------------------------------------------
(* The environment *)

(* a day passes. The script reads the clock in MakeHeader only, so days
   pass before that statement, during the emission loop, or between runs. *)
Tick ==
    /\ pc \in {"header", "emit", "done"}
    /\ clock.day < StartDate.day + MaxTicks
    /\ clock' = [clock EXCEPT !.day = @ + 1]
    /\ UNCHANGED <<env, data, fs, pc, root, date, header, vi, ei, f, exitcode, stderr,
                   stdout, run, fs0, prev, repeats, log>>

(* after a run that succeeded the script is run again, with the same catalog
   and the same LOCALAPPDATA *)
Rerun ==
    /\ pc = "done"
    /\ exitcode = 0
    /\ run < MaxRuns
    /\ prev' = <<[fs |-> fs, date |-> date, exitcode |-> exitcode]>>
    /\ run' = run + 1
    /\ fs0' = fs
    /\ pc' = "rootcheck"
    /\ root' = <<>>
    /\ date' = ""
    /\ header' = <<>>
    /\ vi' = 1
    /\ ei' = 1
    /\ f' = <<>>
    /\ exitcode' = -1
    /\ stderr' = <<>>
    /\ stdout' = <<>>
    /\ log' = <<>>
    /\ UNCHANGED <<env, clock, data, fs, repeats>>

Next ==
    \/ RootCheck
    \/ MakeHeader
    \/ ValidateEntry
    \/ ValidateEnd
    \/ MakeDirs
    \/ OpenFile
    \/ WriteFile
    \/ PrintSummary
    \/ Tick
    \/ Rerun

Spec == Init /\ [][Next]_vars

(* the process starts with the catalog the script ships *)
ShippedInit ==
    /\ env \in EnvValues
    /\ clock = StartDate
    /\ data = ShippedData
    /\ \E sc \in Scenarios : fs = InitialFs(RootOf(env), sc)
    /\ pc = "rootcheck"
    /\ root = <<>>
    /\ date = ""
    /\ header = <<>>
    /\ vi = 1
    /\ ei = 1
    /\ f = <<>>
    /\ exitcode = -1
    /\ stderr = <<>>
    /\ stdout = <<>>
    /\ run = 1
    /\ fs0 = fs
    /\ prev = <<>>
    /\ repeats = [k \in 1..Len(data) |-> Repeats(data[k].entries)]
    /\ log = <<>>

(* the script as shipped: its own catalog, any of the starting filesystems *)
ShippedSpec == ShippedInit /\ [][Next]_vars

(* a statement of the script: the interpreter runs one thread, top to bottom *)
Step ==
    \/ RootCheck
    \/ MakeHeader
    \/ ValidateEntry
    \/ ValidateEnd
    \/ MakeDirs
    \/ OpenFile
    \/ WriteFile
    \/ PrintSummary

(* the interpreter goes on to the next statement while there is one; every
   call into the system returns, with a result or with an error *)
FairSpec == Spec /\ WF_vars(Step)

-----------------------------------------------------------------------------
(* Vocabulary of the properties *)

RECURSIVE SplitNL(_)
(* text.split("\n"): the segments between the newlines of a text; a text of
   n lines, each ended by a newline, has n + 1 segments, the last one empty *)
SplitNL(text) ==
    IF \A i \in 1..Len(text) : text[i] # NL THEN <<text>>
    ELSE LET k == CHOOSE i \in 1..Len(text) :
                      text[i] = NL /\ \A j \in 1..(i-1) : text[j] # NL
         IN  <<SubSeq(text, 1, k-1)>> \o SplitNL(SubSeq(text, k+1, Len(text)))

RECURSIVE OnePerLine(_)
(* every tag followed by one newline, first to last *)
OnePerLine(entries) ==
    IF Len(entries) = 0 THEN <<>>
    ELSE entries[1] \o <<NL>> \o OnePerLine(Tail(entries))

(* the text of a category file: marker line, dated line, blank line, tags *)
Rendered(d, entries) ==
    <<"# CHANGE LOG", NL,
      "# - ", d, " | Request: Regenerate prompt lists | Initial content.", NL,
      NL>> \o OnePerLine(entries)

(* the place of the file of category k: the root of this run joined with
   the category's key *)
Target(k) == Resolve(PathJoin(RootOf(env), data[k].path))

(* category k is the one the emission loop has just written *)
JustWritten(k) == pc = "emit" /\ ei = k + 1

HoldsNewline(tag) == \E i \in 1..Len(tag) : tag[i] = NL

(* the root was a directory when the run started *)
RootWasDir ==
    LET r == RootOf(env) IN r \in DOMAIN fs0 /\ fs0[r].kind = "dir"

(* the two invariants of a category *)
WellFormed(k) ==
    /\ Len(data[k].entries) >= MinEntries
    /\ ~repeats[k]

ValidCatalog == \A k \in 1..Len(data) : WellFormed(k)

EmissionPhase == pc \in {"emit", "open", "write"}

(* the run ended inside the validation loop, at entry vi *)
ValidationFailed ==
    /\ pc = "done"
    /\ exitcode = 1
    /\ header # <<>>
    /\ vi <= Len(data)

(* the run ended at the root check *)
ConfigurationFailed ==
    /\ pc = "done"
    /\ exitcode = 1
    /\ header = <<>>

(* the run ended with the summary *)
Succeeded == pc = "done" /\ exitcode = 0

-----------------------------------------------------------------------------
(* C1: when some category of the catalog breaks the count or the uniqueness
   invariant, the run never enters the emission loop and the filesystem
   stays as it was when the run started; a run that got past the root check
   ends inside the validation loop. *)
C1_InvalidCatalogWritesNothing ==
    \/ /\ fs = fs0
       /\ ~EmissionPhase
       /\ pc = "done" => exitcode = 1 /\ (RootWasDir => ValidationFailed)
    \/ ValidCatalog

(* the second category is rejected after the first one passed *)
C1_Witness ==
    /\ ValidationFailed
    /\ vi = 2
    /\ WellFormed(1)
    /\ fs = fs0

(* C2: when the root is absent or is no directory, the run ends at the root
   check with the "Library not found" message, before any entry is
   validated, and the filesystem is unchanged. *)
C2_MissingRootAborts ==
    ~RootWasDir =>
        /\ fs = fs0
        /\ pc \in {"rootcheck", "done"}
        /\ vi = 1 /\ ei = 1 /\ header = <<>>
        /\ pc = "done" =>
              /\ exitcode = 1
              /\ stderr = <<"Library not found: ", PathStr(RootOf(env))>>
              /\ stdout = <<>>

(* the run ended at a root that exists and is a file *)
C2_Witness ==
    /\ ConfigurationFailed
    /\ RootOf(env) \in DOMAIN fs0
    /\ fs0[RootOf(env)].kind = "file"

(* C3: with an existing root, the validation loop lets the catalog through
   exactly when every category has at least MinEntries tags, pairwise
   distinct: a category of exactly MinEntries distinct tags passes, one of
   MinEntries - 1 tags does not. *)
C3_AcceptsExactlyValidCatalogs ==
    /\ (pc = "emit" /\ ei = 1) => ValidCatalog
    /\ ValidationFailed => ~WellFormed(vi)
    /\ ValidationFailed => \A k \in 1..(vi - 1) : WellFormed(k)
    /\ (pc = "done" /\ RootWasDir /\ vi <= Len(data)) => ValidationFailed

(* a catalog with a category of exactly MinEntries tags was accepted *)
C3_Witness ==
    /\ pc = "emit" /\ ei = 1
    /\ RootWasDir
    /\ \E k \in 1..Len(data) : Len(data[k].entries) = MinEntries

(* C4: a validation failure on a category of fewer than MinEntries tags
   reports "<relative path> has <length of its tag list> entries". *)
C4_CountFailureNamesPathAndCount ==
    (ValidationFailed /\ Len(data[vi].entries) < MinEntries) =>
        /\ Len(stderr) = 4
        /\ stderr[1] = PathStr(data[vi].path)
        /\ stderr[3] = ToString(Len(data[vi].entries))
        /\ <<stderr[2], stderr[4]>> = <<" has ", " entries">>

(* the failing category is short and also repeats a tag *)
C4_Witness ==
    /\ ValidationFailed
    /\ Len(data[vi].entries) = MinEntries - 1
    /\ repeats[vi]

(* C5: a category of at least MinEntries tags that repeats a tag stops the
   validation loop: the run ends there with "<relative path> has duplicate
   entries" and the filesystem as it was. *)
C5_DuplicateFailureNamesPath ==
    /\ \A k \in 1..(vi - 1) : k <= Len(data) => ~repeats[k]
    /\ (ValidationFailed /\ Len(data[vi].entries) >= MinEntries) =>
          /\ repeats[vi]
          /\ stderr = <<PathStr(data[vi].path), " has duplicate entries">>
          /\ fs = fs0

(* the second category has more than MinEntries tags and repeats one *)
C5_Witness ==
    /\ ValidationFailed
    /\ vi = 2
    /\ Len(data[vi].entries) > MinEntries
    /\ repeats[vi]

(* C6: when a run ends in success, every category has a file at the root
   joined with its relative path, the paths are distinct, and the file's text
   is the header, one blank line, the tags one per line, ended by one newline. *)
C6_SuccessMaterializesCatalog ==
    Succeeded =>
        \A k \in 1..Len(data) :
            /\ Target(k) \in DOMAIN fs
            /\ fs[Target(k)].kind = "file"
            /\ fs[Target(k)].content = Rendered(date, data[k].entries)
            /\ \A j \in 1..Len(data) : j # k => Target(j) # Target(k)

(* a run over two categories succeeded under a root that held none of them *)
C6_Witness ==
    /\ Succeeded
    /\ Len(data) = 2
    /\ \A k \in 1..Len(data) : Target(k) \notin DOMAIN fs0

(* C7 as stated: in the file just written for a category, the i-th line after
   the header and the blank line is the i-th tag, for every i. *)
C7_TagLinesInOrder_Original ==
    \A k \in 1..Len(data) :
        JustWritten(k) =>
            LET lines == SplitNL(fs[Target(k)].content)
            IN  \A i \in 1..Len(data[k].entries) :
                    /\ 3 + i <= Len(lines)
                    /\ lines[3 + i] = data[k].entries[i]

(* C7 amended: the same for the categories none of whose tags holds a
   newline character. *)
C7_TagLinesInOrder ==
    \A k \in 1..Len(data) :
        (/\ JustWritten(k)
         /\ \A i \in 1..Len(data[k].entries) : ~HoldsNewline(data[k].entries[i])) =>
            LET lines == SplitNL(fs[Target(k)].content)
            IN  \A i \in 1..Len(data[k].entries) :
                    /\ 3 + i <= Len(lines)
                    /\ lines[3 + i] = data[k].entries[i]

(* the category just written has an empty tag between two others *)
C7_Witness ==
    \E k \in 1..Len(data) :
        /\ JustWritten(k)
        /\ data[k].entries[3] = EmptyTag
        /\ fs[Target(k)].kind = "file"

(* the file of category k is the two header lines, a blank line and one
   line per tag, and ends with one newline, not with two *)
WellShapedFile(k) ==
    LET text == fs[Target(k)].content
        lines == SplitNL(text)
    IN  /\ Len(lines) = 3 + Len(data[k].entries) + 1
        /\ lines[1] = <<"# CHANGE LOG">>
        /\ lines[2] = <<"# - ", date, " | Request: Regenerate prompt lists | Initial content.">>
        /\ lines[3] = <<>>
        /\ text[Len(text)] = NL
        /\ text[Len(text) - 1] # NL

(* C8 as stated: the file just written for a category of N tags has the two
   header lines, one blank line and exactly N more lines, and ends with
   exactly one newline. *)
C8_FileShape_Original ==
    \A k \in 1..Len(data) : JustWritten(k) => WellShapedFile(k)

(* C8 amended: the same for the categories none of whose tags holds a
   newline character and whose last tag is not the empty string. *)
C8_FileShape ==
    \A k \in 1..Len(data) :
        (/\ JustWritten(k)
         /\ \A i \in 1..Len(data[k].entries) : ~HoldsNewline(data[k].entries[i])
         /\ data[k].entries[Len(data[k].entries)] # <<>>) =>
            WellShapedFile(k)

(* the category just written has more than MinEntries tags *)
C8_Witness ==
    \E k \in 1..Len(data) :
        /\ JustWritten(k)
        /\ Len(data[k].entries) > MinEntries
        /\ Len(SplitNL(fs[Target(k)].content)) > MinEntries + 4

(* C9: when the script succeeds again after a run that succeeded, with the
   same catalog and root, every category file has the lines it had after the
   earlier run, except possibly the second (dated) line; when both runs read
   the same date the files are identical. *)
C9_RerunReproducesFiles ==
    (Succeeded /\ prev # <<>>) =>
        \A k \in 1..Len(data) :
            LET before == prev[1].fs[Target(k)].content
                after == fs[Target(k)].content
                old == SplitNL(before)
                new == SplitNL(after)
            IN  /\ Len(old) = Len(new)
                /\ \A i \in 1..Len(new) : i # 2 => old[i] = new[i]
                /\ prev[1].date = date => before = after

(* the second run succeeded on a later date than the first *)
C9_Witness ==
    /\ Succeeded
    /\ prev # <<>>
    /\ prev[1].date # date
    /\ Len(data) > 0
    /\ prev[1].fs # fs

(* C10: the text of the file just written is the rendered text of its
   category, a function of the run's date and the category's tags alone,
   whatever the path held when the run started -- nothing, a stale file, the
   file of an earlier run: nothing of it is kept. *)
C10_WriteReplacesContent ==
    \A k \in 1..Len(data) :
        JustWritten(k) =>
            /\ fs[Target(k)].kind = "file"
            /\ fs[Target(k)].content = Rendered(date, data[k].entries)

(* the file just written replaced a stale file of other content *)
C10_Witness ==
    \E k \in 1..Len(data) :
        /\ JustWritten(k)
        /\ Target(k) \in DOMAIN fs0
        /\ fs0[Target(k)].content = OldContent
        /\ fs[Target(k)].content # OldContent

(* C11: the file of a category is written at the root joined with the
   category's key -- for a key A/B/C.txt, at root/A/B/C.txt -- every
   directory above it exists afterwards, and nothing else was created. *)
C11_FileAtRootJoinedKey ==
    \A k \in 1..Len(data) :
        JustWritten(k) =>
            /\ Target(k) \in DOMAIN fs
            /\ fs[Target(k)].kind = "file"
            /\ (~IsAbs(data[k].path) /\ \A i \in 1..Len(data[k].path) : data[k].path[i] # Up)
                  => Target(k) = RootOf(env) \o data[k].path
            /\ \A q \in Prefixes(DirName(Target(k))) :
                  q \in DOMAIN fs /\ fs[q].kind = "dir"
            /\ \A q \in (DOMAIN fs) \ (DOMAIN fs0) :
                  \E j \in 1..k : q \in Prefixes(Target(j))

(* a file of a three-component key was written where no directory existed *)
C11_Witness ==
    \E k \in 1..Len(data) :
        /\ JustWritten(k)
        /\ Len(data[k].path) = 3
        /\ DirName(Target(k)) \notin DOMAIN fs0
        /\ DirName(DirName(Target(k))) \notin DOMAIN fs0
        /\ Target(k) \in DOMAIN fs

(* the path p lies below the root of this run *)
UnderRoot(p) ==
    /\ Len(p) > Len(RootOf(env))
    /\ SubSeq(p, 1, Len(RootOf(env))) = RootOf(env)

(* the paths this run created or changed *)
Touched == {p \in DOMAIN fs : p \notin DOMAIN fs0 \/ fs[p] # fs0[p]}

(* the key is absolute or holds a ".." component *)
Escaping(key) == IsAbs(key) \/ \E i \in 1..Len(key) : key[i] = Up

(* C12 as stated: whatever the keys of the catalog, every file or directory
   the run creates or writes lies under the root. *)
C12_WritesUnderRoot_Original ==
    \A p \in Touched : UnderRoot(p)

(* C12 amended: every path the run creates or writes lies under the root,
   or is the file of a key that is absolute or holds "..", or a directory
   above that file. *)
C12_WritesUnderRoot ==
    \A p \in Touched :
        \/ UnderRoot(p)
        \/ \E k \in 1..Len(data) : Escaping(data[k].path) /\ p \in Prefixes(Target(k))

(* a run over two keys inside the root succeeded and wrote below the root *)
C12_Witness ==
    /\ Succeeded
    /\ Len(data) = 2
    /\ \A k \in 1..Len(data) : ~Escaping(data[k].path) /\ Target(k) \in Touched

(* the run ended inside the emission loop, at entry ei *)
EmissionFailed ==
    /\ pc = "done"
    /\ exitcode = 1
    /\ header # <<>>
    /\ vi > Len(data)

EmissionOps == {"makedirs", "open", "write"}

(* C13: when creating the directories or writing the file of the k-th
   category fails, the run ends there: the files of the categories before
   the k-th hold their complete text, and for the categories after the k-th
   no step was taken and nothing was created or changed. *)
C13_FailureStopsEmission ==
    EmissionFailed =>
        /\ ei <= Len(data)
        /\ log[Len(log)].op \in EmissionOps
        /\ log[Len(log)].path = data[ei].path
        /\ ~log[Len(log)].ok
        /\ \A i \in 1..(Len(log) - 1) : log[i].ok
        /\ \A j \in 1..(ei - 1) :
              /\ Target(j) \in DOMAIN fs
              /\ fs[Target(j)] = File(Rendered(date, data[j].entries))
        /\ \A j \in (ei + 1)..Len(data) :
              /\ \A i \in 1..Len(log) :
                    log[i].op \in EmissionOps => log[i].path # data[j].path
              /\ Target(j) \notin Touched

(* the write of the first of two categories failed *)
C13_Witness ==
    /\ EmissionFailed
    /\ ei = 1
    /\ Len(data) = 2
    /\ log[Len(log)].op = "write"

(* the places of the files of the catalog *)
Targets == {Target(k) : k \in 1..Len(data)}

(* C14: whatever the outcome of a run, everything that existed when it
   started still exists and is of the same kind, and what is not the file of
   a catalog category has the content it had. *)
C14_OtherFilesUntouched ==
    LET targets == Targets
    IN  \A p \in DOMAIN fs0 :
            /\ p \in DOMAIN fs
            /\ fs[p].kind = fs0[p].kind
            /\ p \notin targets => fs[p] = fs0[p]

(* a run rewrote a catalog file that had a stale file beside it *)
C14_Witness ==
    /\ pc = "done"
    /\ \E k \in 1..Len(data) :
          /\ Target(k) \in Touched
          /\ Target(k) \in DOMAIN fs0
          /\ DirName(Target(k)) \o <<"Sibling.txt">> \in DOMAIN fs0
    /\ Orphan(RootOf(env)) \in DOMAIN fs0

(* the writes of this run that completed *)
WritesDone == {i \in 1..Len(log) : log[i].op = "write" /\ log[i].ok}

(* C15: a run ends with status 0 exactly when the root check passed, the
   whole catalog passed validation and the write of every category
   completed; it then printed "Wrote <n> files under <root>" with n the
   number of files written in the run.  Every other run ends with status 1. *)
C15_ExitStatus ==
    pc = "done" =>
        /\ exitcode \in {0, 1}
        /\ exitcode = 0 <=>
              /\ RootWasDir
              /\ ValidCatalog
              /\ \A k \in 1..Len(data) :
                    \E i \in WritesDone : log[i].path = data[k].path
        /\ exitcode = 0 =>
              stdout = <<"Wrote ", ToString(Cardinality(WritesDone)),
                         " files under ", PathStr(RootOf(env))>>

(* a run over two categories printed its summary *)
C15_Witness ==
    /\ Succeeded
    /\ Cardinality(WritesDone) = 2
    /\ Len(stdout) = 4
    /\ stdout[2] = "2"

(* the phase a logged step belongs to *)
PhaseOf(op) == IF op = "rootcheck" THEN 0 ELSE IF op = "validate" THEN 1 ELSE 2

(* the categories examined, in the order the run examined them *)
Validated == {i \in 1..Len(log) : log[i].op = "validate"}

(* the steps of the emission loop taken so far *)
Emitted == {i \in 1..Len(log) : log[i].op \in EmissionOps}

(* C16: the phases of a run are strictly ordered: the root check comes
   before the first validation, every category has passed validation
   before the first directory is created or the first file opened, and no
   emission step is followed by a validation step. *)
C16_PhasesOrdered ==
    /\ \A i \in 1..Len(log) : \A j \in 1..Len(log) :
          i < j => PhaseOf(log[i].op) <= PhaseOf(log[j].op)
    /\ \A i \in 1..Len(log) : log[i].op = "rootcheck" <=> i = 1
    /\ Len(log) > 1 => log[1].ok
    /\ Emitted # {} =>
          \A k \in 1..Len(data) :
              \E i \in Validated :
                  /\ log[i].ok
                  /\ log[i].path = data[k].path
                  /\ \A j \in Emitted : i < j
    /\ pc \in {"makedirs", "open", "write"} => vi > Len(data)
    /\ fs # fs0 => Emitted # {}

(* two categories were validated and then both were written *)
C16_Witness ==
    /\ pc = "done"
    /\ Cardinality(Validated) = 2
    /\ Cardinality(WritesDone) = 2
    /\ log[1].op = "rootcheck"

(* the first category, in insertion order, that breaks a validation rule *)
FirstViolating ==
    CHOOSE k \in 1..Len(data) :
        /\ ~WellFormed(k)
        /\ \A j \in 1..(k - 1) : WellFormed(j)

(* C17: when several categories break a rule, the failure reported is that
   of the first of them in insertion order: the message names its path, and
   no category after it is examined. *)
C17_FirstViolationReported ==
    ValidationFailed =>
        /\ ~ValidCatalog
        /\ vi = FirstViolating
        /\ Len(stderr) >= 2
        /\ stderr[1] = PathStr(data[FirstViolating].path)
        /\ Cardinality(Validated) = FirstViolating
        /\ \A i \in Validated :
              /\ i - 1 \in 1..FirstViolating
              /\ log[i].path = data[i - 1].path
              /\ log[i].ok <=> i - 1 < FirstViolating

(* the first category failed and a later one breaks a rule too *)
C17_Witness ==
    /\ ValidationFailed
    /\ vi = 1
    /\ \E j \in 2..Len(data) : ~WellFormed(j)

(* the category the run stopped at is short and repeats a tag *)
ShortAndRepeating ==
    /\ ValidationFailed
    /\ Len(data[vi].entries) < MinEntries
    /\ repeats[vi]

(* C18: the count is checked before uniqueness: a category that is both
   short and repeats a tag is reported with the count message, and the
   duplicate message is only ever given for a category of at least
   MinEntries tags. *)
C18_CountBeforeUniqueness ==
    /\ ShortAndRepeating =>
          /\ stderr = <<PathStr(data[vi].path), " has ",
                        ToString(Len(data[vi].entries)), " entries">>
          /\ stderr # <<PathStr(data[vi].path), " has duplicate entries">>
    /\ (ValidationFailed /\ Len(stderr) = 2) =>
          Len(data[vi].entries) >= MinEntries

(* a short category with a repeated tag was reported by its count *)
C18_Witness ==
    /\ ShortAndRepeating
    /\ Len(stderr) = 4
    /\ stderr[4] = " entries"

(* the file of category k is as it was when the run started (or is absent) *)
AsBeforeRun(k) ==
    IF Target(k) \in DOMAIN fs
    THEN Target(k) \in DOMAIN fs0 /\ fs[Target(k)] = fs0[Target(k)]
    ELSE Target(k) \notin DOMAIN fs0

(* the file of category k holds the whole rendered text of the category *)
FullyRendered(k) ==
    /\ Target(k) \in DOMAIN fs
    /\ fs[Target(k)].kind = "file"
    /\ fs[Target(k)].content = Rendered(date, data[k].entries)

(* C19: in every state of the emission loop, and after it stopped, the file
   of each category holds either what it held before the run (or is absent)
   or the whole rendered text; it is never empty or cut short, also when
   its write fails.  open(abs_path, "w") truncates the file before f.write
   puts the text in, so this does not hold. *)
C19_FilesNeverPartial ==
    (EmissionPhase \/ EmissionFailed) =>
        \A k \in 1..Len(data) : AsBeforeRun(k) \/ FullyRendered(k)

(* the write of a category failed and left its file cut short, the earlier
   text of the file gone *)
C19_Witness ==
    /\ EmissionFailed
    /\ Len(log) > 0
    /\ log[Len(log)].op = "write"
    /\ ~log[Len(log)].ok
    /\ \E k \in 1..Len(data) :
          /\ Target(k) \in DOMAIN fs0
          /\ fs0[Target(k)].kind = "file"
          /\ Target(k) \in DOMAIN fs
          /\ fs[Target(k)].kind = "file"
          /\ Len(fs[Target(k)].content) < Len(fs0[Target(k)].content)

(* the attempts to write a file, completed or not *)
WriteAttempts == {i \in 1..Len(log) : log[i].op = "write"}

(* the place of step i among the steps in S: 1 for the earliest *)
PlaceIn(S, i) == Cardinality({j \in S : j <= i})

(* C20: a run validates each category at most once and writes it at most
   once; validation visits the categories in the catalog's insertion
   order, and in every state of the emission loop the categories already
   written are the first ei - 1 of that same order. *)
C20_OncePerEntryInOrder ==
    /\ \A i \in Validated : \A j \in Validated :
          i # j => log[i].path # log[j].path
    /\ \A i \in WriteAttempts : \A j \in WriteAttempts :
          i # j => log[i].path # log[j].path
    /\ \A i \in Validated :
          /\ PlaceIn(Validated, i) <= Len(data)
          /\ log[i].path = data[PlaceIn(Validated, i)].path
    /\ \A i \in WritesDone :
          /\ PlaceIn(WritesDone, i) <= Len(data)
          /\ log[i].path = data[PlaceIn(WritesDone, i)].path
          /\ \E v \in Validated :
                /\ PlaceIn(Validated, v) = PlaceIn(WritesDone, i)
                /\ log[v].path = log[i].path
    /\ EmissionPhase => Cardinality(WritesDone) = ei - 1

(* the first of two categories is written, the second is not yet *)
C20_Witness ==
    /\ pc = "emit"
    /\ Len(data) = 2
    /\ ei = 2
    /\ Cardinality(WritesDone) = 1
    /\ Cardinality(Validated) = 2

(* the four ways a run ends, told apart by what the process gave out *)
ConfigurationError ==
    /\ exitcode = 1
    /\ Len(stderr) = 2
    /\ stderr[1] = "Library not found: "
    /\ stdout = <<>>

ValidationError ==
    /\ exitcode = 1
    /\ \/ Len(stderr) = 2 /\ stderr[2] = " has duplicate entries"
       \/ Len(stderr) = 4 /\ stderr[2] = " has " /\ stderr[4] = " entries"
    /\ stdout = <<>>

FilesystemError ==
    /\ exitcode = 1
    /\ Len(stderr) = 2
    /\ stderr[1] = "OSError: "
    /\ stdout = <<>>

Success ==
    /\ exitcode = 0
    /\ stderr = <<>>
    /\ Len(stdout) = 4

Outcomes ==
    {o \in {"configuration", "validation", "filesystem", "success"} :
        \/ o = "configuration" /\ ConfigurationError
        \/ o = "validation" /\ ValidationError
        \/ o = "filesystem" /\ FilesystemError
        \/ o = "success" /\ Success}

(* a run that ended did so in one outcome, the one of the phase it ended in *)
EndedInOneOutcome ==
    /\ Cardinality(Outcomes) = 1
    /\ ConfigurationError <=> ConfigurationFailed
    /\ ValidationError <=> ValidationFailed
    /\ FilesystemError <=> EmissionFailed
    /\ Success =>
          \A k \in 1..Len(data) :
              \E i \in WriteAttempts : log[i].path = data[k].path

(* C21: every run terminates, in exactly one of four outcomes: the
   configuration error, a validation error, a filesystem error during
   emission, or success; on success a write was attempted for every
   category of the catalog. *)
C21_RunTerminatesInOneOutcome ==
    /\ [](pc = "done" => EndedInOneOutcome)
    /\ [](pc # "done" => <>(pc = "done"))

(* a second run of the script ended with a filesystem error *)
C21_Witness ==
    /\ pc = "done"
    /\ run = 2
    /\ Outcomes = {"filesystem"}

(* C22: validation has no side effects: while the validation loop runs
   neither the catalog (keys, tag lists, their order) nor the filesystem
   changes, the filesystem at its end is the one the run started with, and
   the catalog stays the same through the emission loop as well. *)
C22_ValidationHasNoSideEffects ==
    /\ [][data' = data]_vars
    /\ [][pc = "validate" => fs' = fs]_vars
    /\ [](pc = "validate" => fs = fs0)

(* both categories passed validation and the emission loop is about to start *)
C22_Witness ==
    /\ pc = "emit"
    /\ ei = 1
    /\ Len(data) = 2
    /\ vi = 3
    /\ fs = fs0
    /\ Cardinality(Validated) = 2

(* the step taken is the creation of the directories of category ei *)
MakeDirsStep ==
    /\ pc = "emit"
    /\ Len(log') = Len(log) + 1
    /\ log'[Len(log')].op = "makedirs"

(* the directory the file of category ei goes in is there already *)
ParentThere ==
    /\ ei <= Len(data)
    /\ IsDir(fs, Resolve(DirName(PathJoin(RootOf(env), data[ei].path))))

(* C23: creating the parent directories of a category is idempotent: when
   the directory is there already the step raises no error and changes
   nothing in the filesystem; in any case what was in the filesystem before
   the step is still there after it, unchanged. *)
C23_MakeDirsIdempotent ==
    /\ [][(MakeDirsStep /\ ParentThere) =>
             /\ pc' = "open"
             /\ exitcode' = exitcode
             /\ stderr' = stderr
             /\ log'[Len(log')].ok
             /\ fs' = fs]_vars
    /\ [][MakeDirsStep =>
             \A p \in DOMAIN fs : p \in DOMAIN fs' /\ fs'[p] = fs[p]]_vars

(* the directories of a category were asked for while they existed, with a
   file of the earlier library beside the category's file *)
C23_Witness ==
    /\ pc = "open"
    /\ Len(log) > 0
    /\ log[Len(log)].op = "makedirs"
    /\ log[Len(log)].ok
    /\ fs = fs0
    /\ DirName(Target(ei)) \in DOMAIN fs0
    /\ DirName(Target(ei)) \o <<"Sibling.txt">> \in DOMAIN fs0

(* the dates the clock can have shown since the process started *)
DatesSoFar ==
    {Strftime([clock EXCEPT !.day = d]) : d \in StartDate.day..clock.day}

(* the first chunks of a file, as many as the header has *)
HeadOf(text) == SubSeq(text, 1, Len(header))

(* C24: the header is made once per run and every file the run has written
   starts with that same header: the marker line, then exactly one dated
   entry, carrying the date read at the start of the run, then the blank
   line.  No file of the run carries another date or a second entry, also
   when the day changes while the files are written. *)
C24_OneHeaderPerRun ==
    (EmissionPhase \/ EmissionFailed \/ Succeeded) =>
        /\ date \in DatesSoFar
        /\ header = <<"# CHANGE LOG", NL, "# - ", date,
                      " | Request: Regenerate prompt lists | Initial content.", NL>>
        /\ Cardinality({j \in 1..Len(header) : header[j] = "# - "}) = 1
        /\ \A i \in WritesDone :
              LET k == PlaceIn(WritesDone, i)
              IN  /\ k <= Len(data)
                  /\ Target(k) \in DOMAIN fs
                  /\ fs[Target(k)].kind = "file"
                  /\ Len(fs[Target(k)].content) > Len(header)
                  /\ HeadOf(fs[Target(k)].content) = header
                  /\ fs[Target(k)].content[Len(header) + 1] = NL

(* two files were written and the day changed after the header was made *)
C24_Witness ==
    /\ pc = "done"
    /\ Cardinality(WritesDone) = 2
    /\ date # Strftime(clock)
    /\ \A k \in 1..Len(data) :
          Target(k) \in DOMAIN fs /\ HeadOf(fs[Target(k)].content) = header

(* the tags two categories have in common *)
SharedTags(j, k) == SetOf(data[j].entries) \cap SetOf(data[k].entries)

(* the text holds the tag, chunk for chunk *)
Contains(text, tag) ==
    \E i \in 1..(Len(text) - Len(tag) + 1) :
        \A n \in 1..Len(tag) : text[i + n - 1] = tag[n]

(* C25: a tag that two categories share is no validation failure: a run
   stops in the validation loop only at a category that is short or
   repeats a tag within its own list, and after a run that succeeded the
   files of both categories hold the shared tag. *)
C25_SharedTagsAllowed ==
    pc = "done" =>
        \A j \in 1..Len(data) : \A k \in (j + 1)..Len(data) :
            LET shared == SharedTags(j, k)
            IN  shared # {} =>
                   /\ ValidationFailed => ~WellFormed(vi)
                   /\ (RootWasDir /\ ValidCatalog) => ~ValidationFailed
                   /\ Succeeded =>
                         /\ Target(j) \in DOMAIN fs
                         /\ Target(k) \in DOMAIN fs
                         /\ \A t \in shared :
                               /\ Contains(fs[Target(j)].content, t)
                               /\ Contains(fs[Target(k)].content, t)

(* two categories with the same first tag were both written *)
C25_Witness ==
    /\ Succeeded
    /\ Len(data) = 2
    /\ data[1].entries[1] = data[2].entries[1]
    /\ data[1].entries[1] \in SharedTags(1, 2)
    /\ Contains(fs[Target(2)].content, data[1].entries[1])

(* the root of a run whose LOCALAPPDATA is unset: the fixed subpath alone,
   a path relative to the working directory *)
DefaultRoot == <<"PromptLoom", "Library">>

(* C26: when LOCALAPPDATA is unset the root is the empty value joined with
   PromptLoom/Library; the run goes on to validation exactly when that path
   was a directory at the root check, and otherwise ends with "Library not
   found: PromptLoom/Library", status 1, and the filesystem as it was. *)
C26_UnsetBaseDirectory ==
    (env = <<>> /\ pc # "rootcheck") =>
        /\ root = DefaultRoot
        /\ Len(log) > 0
        /\ log[1].path = DefaultRoot
        /\ log[1].ok <=> (DefaultRoot \in DOMAIN fs0 /\ fs0[DefaultRoot].kind = "dir")
        /\ log[1].ok <=> (pc = "header" \/ header # <<>>)
        /\ ~log[1].ok =>
              /\ pc = "done"
              /\ exitcode = 1
              /\ stderr = <<"Library not found: ", "PromptLoom/Library">>
              /\ fs = fs0
              /\ Len(log) = 1

(* with LOCALAPPDATA unset, PromptLoom/Library was a directory and the
   run went on to validate a category *)
C26_Witness ==
    /\ env = <<>>
    /\ root = DefaultRoot
    /\ Cardinality(Validated) > 0
    /\ IsDir(fs0, DefaultRoot)

(* C27: the root check takes precedence over every catalog check: when
   the root is no directory and the catalog breaks a rule as well, the run
   ends with the configuration error, never with a validation error, and
   no category has been examined. *)
C27_RootCheckTakesPrecedence ==
    (pc = "done" /\ ~RootWasDir /\ ~ValidCatalog) =>
        /\ ConfigurationError
        /\ ~ValidationError
        /\ stderr = <<"Library not found: ", PathStr(RootOf(env))>>
        /\ Validated = {}
        /\ vi = 1

(* the root was missing and the first category was short *)
C27_Witness ==
    /\ pc = "done"
    /\ ~RootWasDir
    /\ Len(data) > 0
    /\ Len(data[1].entries) < MinEntries
    /\ ConfigurationError

(* the directory the file of category k goes in, and all above it, exist *)
ParentsExist(k) ==
    LET d == DirName(Target(k))
    IN  \A n \in 1..Len(d) : IsDir(fs, SubSeq(d, 1, n))

(* the run stopped at the open or the write of the file of category ei *)
FileStepFailed ==
    /\ EmissionFailed
    /\ Len(log) > 0
    /\ log[Len(log)].op \in {"open", "write"}
    /\ ~log[Len(log)].ok

(* C28: for each category the creation of its parent directories comes
   before the open and the write of its file, so a file this run has
   opened or written has its parent directory; when the open or the write
   of the file of a category fails, the directories made for it are still
   there, and that category is not among the ones written. *)
C28_DirectoriesBeforeFile ==
    /\ \A i \in 1..Len(log) :
          log[i].op \in {"open", "write"} =>
              \E j \in 1..(i - 1) :
                  /\ log[j].op = "makedirs"
                  /\ log[j].ok
                  /\ log[j].path = log[i].path
    /\ pc \in {"open", "write"} => ParentsExist(ei)
    /\ \A i \in WritesDone :
          PlaceIn(WritesDone, i) <= Len(data) /\ ParentsExist(PlaceIn(WritesDone, i))
    /\ FileStepFailed =>
          /\ ParentsExist(ei)
          /\ \A i \in WritesDone : log[i].path # data[ei].path

(* the write of a file failed under directories this run had made *)
C28_Witness ==
    /\ FileStepFailed
    /\ log[Len(log)].op = "write"
    /\ DirName(Target(ei)) \notin DOMAIN fs0
    /\ IsDir(fs, DirName(Target(ei)))

(* the keys of the shipped catalog, and its groups: the first component of
   each key *)
ShippedKeys == {ShippedData[k].path : k \in 1..Len(ShippedData)}
ShippedGroups == {key[1] : key \in ShippedKeys}

(* the emission steps of the run so far all went well *)
NoFilesystemError == \A i \in Emitted : log[i].ok

(* C29: the catalog the script ships has 15 groups of 5 categories, 75
   distinct relative paths; each category has at least MinEntries tags and
   none twice, so no run of the script ends in a validation error, and a
   run whose root was a directory and whose emission steps all went well
   ends in success, reporting 75 files. *)
C29_ShippedCatalogPasses ==
    /\ data = ShippedData
    /\ Len(data) = 75
    /\ Cardinality(ShippedKeys) = 75
    /\ Cardinality(ShippedGroups) = 15
    /\ \A g \in ShippedGroups : Cardinality({key \in ShippedKeys : key[1] = g}) = 5
    /\ \A key \in ShippedKeys : ~Escaping(key)
    /\ \A k \in 1..Len(data) :
          /\ Len(data[k].entries) >= MinEntries
          /\ ~repeats[k]
    /\ ~ValidationFailed
    /\ pc = "done" => ~ValidationError
    /\ (pc = "done" /\ RootWasDir /\ NoFilesystemError) =>
          /\ Succeeded
          /\ Cardinality(WritesDone) = 75
          /\ stdout = <<"Wrote ", "75", " files under ", PathStr(RootOf(env))>>

(* the shipped catalog was written out in full *)
C29_Witness ==
    /\ data = ShippedData
    /\ Succeeded
    /\ Len(stdout) = 4
    /\ stdout[2] = "75"
    /\ Cardinality(WritesDone) = 75

=============================================================================
